---- MODULE Spec2Model ----
(***************************************************************************)
(* flightsense-go: the write-through cache (cache/cache.go), the weather   *)
(* resolver (weather/weather.go over the cachemap package) and the         *)
(* per-file pipeline (processFile, parse.Worker, printer).                 *)
(*                                                                         *)
(* The specifications share the variables:                                 *)
(*   Spec         goroutines calling Cache.Set / Get / Export and Load     *)
(*   SpecPipe     processFile with its workers and its printer             *)
(*   SpecPipeFair the same on a file without failing fetches, scheduled    *)
(*   SpecWeather  workers calling weather.Get against cachemap             *)
(*   SpecLoad     Load of a cache file an earlier run left on the disk     *)
(*   SpecPool     readFile with its parsers, workers and printer           *)
(*   SpecParse    parse applied to one raw row                             *)
(*   SpecMu       the cachemap package guarded by its mutex                *)
(*   SpecSeq      readFile of the revision with the jobs semaphore         *)
(* Strings are sequences of one-character strings, so that formatting a    *)
(* line and splitting it again are computed, not assumed.                  *)
(***************************************************************************)
EXTENDS Integers, Sequences, FiniteSets, TLC

\* ------------------------------------------------------------------ bounds
NumProcs == 2
MaxOps == 3
NumWorkers == 2
MaxRows == 3
MaxCalls == 3
MaxTick == 3
HourTicks == 2
DayHours == 2
MaxLines == 3

\* ------------------------------------------------------------ cache inputs
Keys == {<<"a">>, <<"b">>}
Vals == {<<"x">>, <<"y">>, <<"x", "_">>}
DefaultName == "weather.cache"
Paths == {DefaultName, "snap.cache"}
Procs == 1..NumProcs
NoCache == [ok |-> FALSE]
NotFound == [found |-> FALSE]

VARIABLES
    data,       \* Cache.data of the live instance: key -> value
    name,       \* Cache.name of the live instance
    fs,         \* the disk: path -> sequence of chunks written to the file
    cpc,        \* per goroutine: where it is inside Cache.Set
    carg,       \* per goroutine: the (k, v, fd) of the Set in progress
    got,        \* per goroutine: what its last Get returned
    lastSet,    \* per goroutine: its last Set and whether the key was loaded
    appended,   \* key -> values appendFile was invoked with, in order
    firstSet,   \* key -> value of the first Set that found the key absent
    exported,   \* path -> the map written by the last Export to that path
    fresh,      \* the instance returned by the last Load, with its argument
    nops,       \* operations started so far
    crashed     \* the process panicked or exited

cacheVars == <<data, name, fs, cpc, carg, got, lastSet, appended, firstSet,
               exported, fresh, nops, crashed>>

VARIABLES
    mpc,        \* processFile: where the coordinator is
    rows,       \* the rows accepted so far: kind, state, Done and Write counts
    nlines,     \* lines the CSV reader has returned so far
    rowCh,      \* the buffered raw-row channel: indices into rows
    rowClosed,  \* close(rowCh) has run
    printClosed,\* close(printCh) has run
    wg,         \* the WaitGroup counter
    wpc,        \* per worker: where it is inside parse.Worker
    wrow,       \* per worker: the row it holds
    spc,        \* printer: where it is
    srow,       \* printer: the record it has received and not yet written
    outbuf,     \* csv.Writer: what was written and not yet flushed
    outfile,    \* the output file: what was flushed to it
    outClosed,  \* outF.Close has run
    halt        \* "no", or how the process ended: "fatal", "panic", "exit"

pipeVars == <<mpc, rows, nlines, rowCh, rowClosed, printClosed, wg, wpc, wrow,
              spc, srow, outbuf, outfile, outClosed, halt>>

VARIABLES
    xpc,        \* per worker: where it is inside weather.Get
    xreq,       \* per worker: the airport and rounded time of its call
    xresp,      \* per worker: the hourly points of its fetch not yet cached
    xres,       \* per worker: what its last completed call returned
    cmap,       \* cachemap: the in-memory map, key -> payload
    cmfile,     \* cachemap: the lines appended to the cache file
    conc,       \* slots of the conc channel in use
    fetches,    \* key -> external fetches made for it
    ncalls,     \* calls of weather.Get started
    ndone,      \* calls of weather.Get that returned
    backfilled, \* (airport, hour) of the hourly points of fetches whose call returned
    failSnap,   \* what had happened when an external fetch failed
    xhalt       \* "no", or how the process ended

wxVars == <<xpc, xreq, xresp, xres, cmap, cmfile, conc, fetches, ncalls, ndone,
            backfilled, failSnap, xhalt>>

VARIABLES
    rpc,        \* readFile: where the reader is
    rn,         \* lines the CSV reader has returned so far
    rowVar,     \* the loop variable row, whose address goes on rowc
    ppc,        \* per parser: where it is inside parser
    pf,         \* per parser: its variable f, the Flight whose address goes on jobs
    kpc,        \* per worker: where it is inside worker
    kptr,       \* per worker: the parser whose f its pointer points to
    kgot,       \* per worker: the row the record held when the worker received it
    jobsClosed, \* close(jobs) has run
    pcloses,    \* close(printc) calls made
    pwg,        \* the WaitGroup counter
    zpc,        \* printer: where it is
    zrec,       \* printer: the slice it has received and not yet written
    zout,       \* printer: the records written
    phalt       \* "no", or how the process ended: "panic", "exit"

poolVars == <<rpc, rn, rowVar, ppc, pf, kpc, kptr, kgot, jobsClosed, pcloses, pwg,
              zpc, zrec, zout, phalt>>

VARIABLES
    inRow,      \* parse: the raw row, column name -> value
    parsed      \* parse: what it returned for the row, once called

parseVars == <<inRow, parsed>>

VARIABLES
    mu,          \* cachemap, mutex revision: the RWMutex, its writer and readers
    cache,       \* the package's map, key -> value
    cachename,   \* the file append writes to
    initialized, \* the package's flag
    txt,         \* the disk: path -> the text of the file
    gpc,         \* per goroutine: where it is inside Set or Get
    garg,        \* per goroutine: the key and value of its call
    gret,        \* per goroutine: what its last Get returned
    gops         \* calls started

muVars == <<mu, cache, cachename, initialized, txt, gpc, garg, gret, gops>>

VARIABLES
    rdpc,       \* readFile of the semaphore revision: where the reader is
    rdrow,      \* the row it has read last, 0 before the first
    jobs,       \* tokens in the jobs channel
    rdwg,       \* the WaitGroup counter
    ptclosed,   \* printc is closed
    ptpc,       \* where the printer is
    ptrec,      \* the record the printer has received and not yet written
    ptout,      \* the rows the printer has written, in order
    rdhalt      \* "no", or how the process ended

seqVars == <<rdpc, rdrow, jobs, rdwg, ptclosed, ptpc, ptrec, ptout, rdhalt>>

vars == <<cacheVars, pipeVars, wxVars, poolVars, parseVars, muVars, seqVars>>

\* ------------------------------------------------------------- sequences
RECURSIVE SplitFrom(_, _, _, _)
SplitFrom(s, sep, i, cur) ==
    IF i > Len(s) THEN <<cur>>
    ELSE IF s[i] = sep THEN <<cur>> \o SplitFrom(s, sep, i + 1, <<>>)
    ELSE SplitFrom(s, sep, i + 1, Append(cur, s[i]))

\* strings.Split(line, sep): n separators give n + 1 fields
Split(s, sep) == SplitFrom(s, sep, 1, <<>>)

\* bufio.ScanLines: newline-terminated lines, a final unterminated one kept
ScanLines(b) ==
    LET f == Split(b, "\n")
    IN  IF f[Len(f)] = <<>> THEN SubSeq(f, 1, Len(f) - 1) ELSE f

\* fmt.Fprintf(w, "%s_%s\n", k, v)
FormatLine(k, v) == k \o <<"_">> \o v \o <<"\n">>

\* ------------------------------------------------------------ gzip on disk
Hdr == [t |-> "hdr", b |-> <<>>]
Trl == [t |-> "trl", b |-> <<>>]
Dat(b) == [t |-> "dat", b |-> b]

\* gzip.Reader over concatenated members: the bytes it yields before the
\* first malformed member stops it
RECURSIVE Gunzip(_, _)
Gunzip(ch, i) ==
    IF i + 1 > Len(ch) THEN <<>>
    ELSE IF ch[i].t = "hdr" /\ ch[i + 1].t = "dat"
         THEN ch[i + 1].b \o
              (IF i + 2 <= Len(ch) /\ ch[i + 2].t = "trl"
               THEN Gunzip(ch, i + 3) ELSE <<>>)
         ELSE <<>>

\* gzip.NewReader fails when the first member header cannot be read
NewReaderFails(ch) == Len(ch) = 0 \/ ch[1].t # "hdr"

\* ---------------------------------------------------------------- sync.Map
StoreAlways(m, k, v) == [x \in (DOMAIN m) \cup {k} |-> IF x = k THEN v ELSE m[x]]

LoadOrStore(m, k, v) == IF k \in DOMAIN m THEN m ELSE m @@ (k :> v)

CacheGet(m, k) == IF k \in DOMAIN m THEN [found |-> TRUE, v |-> m[k]] ELSE NotFound

\* the map after sync.Map.Load(k): as it was
LoadStoresEmpty(m, k) == IF k \in DOMAIN m THEN m ELSE m @@ (k :> <<>>)

MapAfterLoad(m, k) == m

AppendAlways(loaded) == TRUE

SetAppends(loaded) == ~loaded

\* what Set returns, whatever appendFile returned
SetReturns(appendOk) == "nil"

\* the map after appendFile failed for key k: Set leaves it as it is
Rollback(m, k) == [x \in (DOMAIN m) \ {k} |-> m[x]]

AfterAppendError(m, k) == m

\* a loop that takes the first two fields of any line with a delimiter
RECURSIVE LoadLinesLoose(_, _, _)
LoadLinesLoose(m, lines, i) ==
    IF i > Len(lines) THEN m
    ELSE LET val == Split(lines[i], "_")
         IN  IF Len(val) >= 2
             THEN LoadLinesLoose(LoadOrStore(m, val[1], val[2]), lines, i + 1)
             ELSE LoadLinesLoose(m, lines, i + 1)

\* Load's scan loop over the lines of the file
RECURSIVE LoadLines(_, _, _)
LoadLines(m, lines, i) ==
    IF i > Len(lines) THEN m
    ELSE LET val == Split(lines[i], "_")
         IN  IF Len(val) = 2
             THEN LoadLines(LoadOrStore(m, val[1], val[2]), lines, i + 1)
             ELSE LoadLines(m, lines, i + 1)

\* the file Load opens: c.name, whatever its argument
LoadPath(filename) == DefaultName

\* --------------------------------------------------------------- Cache ops
EmptyMap == [x \in {} |-> <<>>]

\* a new instance, no operation started
InitCacheRest ==
    /\ data = EmptyMap
    /\ name = DefaultName
    /\ cpc = [p \in Procs |-> "idle"]
    /\ carg = [p \in Procs |-> [k |-> <<>>, v |-> <<>>, fd |-> DefaultName]]
    /\ got = [p \in Procs |-> [k |-> <<>>, r |-> NotFound, called |-> FALSE]]
    /\ lastSet = [p \in Procs |-> [k |-> <<>>, v |-> <<>>, loaded |-> FALSE, called |-> FALSE,
                                    appendOk |-> TRUE, ret |-> "none"]]
    /\ appended = [k \in Keys |-> <<>>]
    /\ firstSet = EmptyMap
    /\ exported = [p \in Paths |-> NoCache]
    /\ fresh = NoCache
    /\ nops = 0
    /\ crashed = FALSE

\* no cache file on the disk yet
InitCache ==
    /\ fs = [p \in Paths |-> <<>>]
    /\ InitCacheRest

CanStart(p) == ~crashed /\ cpc[p] = "idle" /\ nops < MaxOps

\* Cache.Set, the LoadOrStore
Set(p, k, v) ==
    /\ CanStart(p)
    /\ nops' = nops + 1
    /\ data' = LoadOrStore(data, k, v)
    /\ firstSet' = IF k \in DOMAIN data THEN firstSet ELSE firstSet @@ (k :> v)
    /\ lastSet' = [lastSet EXCEPT ![p] =
                       [k |-> k, v |-> v, loaded |-> (k \in DOMAIN data), called |-> TRUE,
                        appendOk |-> TRUE,
                        ret |-> IF SetAppends(k \in DOMAIN data) THEN "none" ELSE SetReturns(TRUE)]]
    /\ carg' = [carg EXCEPT ![p] = [k |-> k, v |-> v, fd |-> DefaultName]]
    /\ cpc' = [cpc EXCEPT ![p] = IF SetAppends(k \in DOMAIN data) THEN "append" ELSE "idle"]
    /\ UNCHANGED <<name, fs, got, appended, exported, fresh, crashed>>
    /\ UNCHANGED <<pipeVars, wxVars, poolVars, parseVars, muVars, seqVars>>

\* an error inside appendFile: nothing more is written, appendFile returns,
\* and Set returns
AppendFails(p) ==
    /\ data' = AfterAppendError(data, carg[p].k)
    /\ lastSet' = [lastSet EXCEPT ![p].appendOk = FALSE, ![p].ret = SetReturns(FALSE)]
    /\ cpc' = [cpc EXCEPT ![p] = "idle"]

\* an appendFile that opens the file the cache was created with
OpenDefault(n) == DefaultName

\* the file appendFile opens: c.name as it is at that moment
OpenTarget(n) == n

\* appendFile is entered and opens c.name; os.OpenFile may fail
AppendOpen(p) ==
    /\ ~crashed /\ cpc[p] = "append"
    /\ appended' = [appended EXCEPT ![carg[p].k] = Append(@, carg[p].v)]
    /\ \E ok \in BOOLEAN :
           IF ok
           THEN /\ carg' = [carg EXCEPT ![p].fd = OpenTarget(name)]
                /\ cpc' = [cpc EXCEPT ![p] = "header"]
                /\ UNCHANGED <<data, lastSet>>
           ELSE /\ AppendFails(p)
                /\ UNCHANGED carg
    /\ UNCHANGED <<name, fs, got, firstSet, exported, fresh, nops, crashed>>
    /\ UNCHANGED <<pipeVars, wxVars, poolVars, parseVars, muVars, seqVars>>

\* fmt.Fprintf on the gzip writer: the member header reaches the file, or the
\* write fails and the writer writes nothing more
AppendHeader(p) ==
    /\ ~crashed /\ cpc[p] = "header"
    /\ \E ok \in BOOLEAN :
           IF ok
           THEN /\ fs' = [fs EXCEPT ![carg[p].fd] = Append(@, Hdr)]
                /\ cpc' = [cpc EXCEPT ![p] = "flush"]
                /\ UNCHANGED <<data, lastSet>>
           ELSE /\ AppendFails(p)
                /\ UNCHANGED fs
    /\ UNCHANGED <<name, carg, got, appended, firstSet, exported, fresh, nops, crashed>>
    /\ UNCHANGED <<pipeVars, wxVars, poolVars, parseVars, muVars, seqVars>>

\* w.Close: the compressed line reaches the file
AppendFlush(p) ==
    /\ ~crashed /\ cpc[p] = "flush"
    /\ fs' = [fs EXCEPT ![carg[p].fd] = Append(@, Dat(FormatLine(carg[p].k, carg[p].v)))]
    /\ cpc' = [cpc EXCEPT ![p] = "trailer"]
    /\ UNCHANGED <<data, name, carg, got, lastSet, appended, firstSet, exported, fresh, nops, crashed>>
    /\ UNCHANGED <<pipeVars, wxVars, poolVars, parseVars, muVars, seqVars>>

\* w.Close: the member trailer reaches the file; f.Close; Set returns
AppendTrailer(p) ==
    /\ ~crashed /\ cpc[p] = "trailer"
    /\ fs' = [fs EXCEPT ![carg[p].fd] = Append(@, Trl)]
    /\ cpc' = [cpc EXCEPT ![p] = "idle"]
    /\ lastSet' = [lastSet EXCEPT ![p].ret = SetReturns(TRUE)]
    /\ UNCHANGED <<data, name, carg, got, appended, firstSet, exported, fresh, nops, crashed>>
    /\ UNCHANGED <<pipeVars, wxVars, poolVars, parseVars, muVars, seqVars>>

\* Cache.Get
Get(p, k) ==
    /\ CanStart(p)
    /\ nops' = nops + 1
    /\ got' = [got EXCEPT ![p] = [k |-> k, r |-> CacheGet(data, k), called |-> TRUE]]
    /\ data' = MapAfterLoad(data, k)
    /\ UNCHANGED <<name, fs, cpc, carg, lastSet, appended, firstSet, exported, fresh, crashed>>
    /\ UNCHANGED <<pipeVars, wxVars, poolVars, parseVars, muVars, seqVars>>

\* a Range whose callback returns false after the first entry
ExportFirstOnly(m, order) ==
    IF order = <<>> THEN <<>> ELSE FormatLine(Head(order), m[Head(order)])

\* the lines Range writes, in some order
RECURSIVE ExportBytes(_, _)
ExportBytes(m, order) ==
    IF order = <<>> THEN <<>>
    ELSE FormatLine(Head(order), m[Head(order)]) \o ExportBytes(m, Tail(order))

Orders(S) == {o \in [1..Cardinality(S) -> S] : \A i, j \in 1..Cardinality(S) : i # j => o[i] # o[j]}

\* Cache.Export
Export(p, path) ==
    /\ CanStart(p)
    /\ nops' = nops + 1
    /\ name' = path
    /\ \E order \in Orders(DOMAIN data) :
           fs' = [fs EXCEPT ![path] = <<Hdr, Dat(ExportBytes(data, order)), Trl>>]
    /\ exported' = [exported EXCEPT ![path] = [ok |-> TRUE, data |-> data]]
    /\ fresh' = NoCache
    /\ UNCHANGED <<data, cpc, carg, got, lastSet, appended, firstSet, crashed>>
    /\ UNCHANGED <<pipeVars, wxVars, poolVars, parseVars, muVars, seqVars>>

\* Load
Load(p, filename) ==
    /\ CanStart(p)
    /\ nops' = nops + 1
    /\ LET f == fs[LoadPath(filename)]
       IN  IF NewReaderFails(f)
           THEN /\ crashed' = TRUE
                /\ fresh' = NoCache
           ELSE /\ crashed' = FALSE
                /\ fresh' = [ok |-> TRUE, path |-> filename,
                             data |-> LoadLines(EmptyMap, ScanLines(Gunzip(f, 1)), 1)]
    /\ UNCHANGED <<data, name, fs, cpc, carg, got, lastSet, appended, firstSet, exported>>
    /\ UNCHANGED <<pipeVars, wxVars, poolVars, parseVars, muVars, seqVars>>

\* ----------------------------------------------------------------- pipeline
\* processFile (one input file), parse.Worker and printer
Workers == 1..NumWorkers
RowChCap == NumWorkers
RowKinds == {"ok", "parseErr", "wxErr", "wxFatal"}
Terminal == {"written", "skipped"}
NoRow == 0

InitPipe ==
    /\ mpc = "open"
    /\ rows = <<>>
    /\ nlines = 0
    /\ rowCh = <<>>
    /\ rowClosed = FALSE
    /\ printClosed = FALSE
    /\ wg = 0
    /\ wpc = [w \in Workers |-> "recv"]
    /\ wrow = [w \in Workers |-> NoRow]
    /\ spc = "create"
    /\ srow = NoRow
    /\ outbuf = <<>>
    /\ outfile = <<>>
    /\ outClosed = FALSE
    /\ halt = "no"

Running == halt = "no"

\* wg.Wait returns once the counter is zero
NoWait(n) == TRUE

WaitReturns(n) == n = 0

\* the worker's branch after parse(r): skip the row, or go on to the weather
ParseNeverFails(kind) == "weather"

ParseErrorFatal(kind) == IF kind = "parseErr" THEN "fatal" ELSE "weather"

AfterParse(kind) == IF kind = "parseErr" THEN "skip" ELSE "weather"

\* the worker's branch after getWeatherData(f, c)
AfterWeather(kind) ==
    CASE kind = "wxErr" -> "skip"
      [] kind = "wxFatal" -> "fatal"
      [] OTHER -> "send"

\* wg.Done calls the worker makes itself on each way out of the loop body
DoneEveryWay(way) == 1

DoneNever(way) == 0

WorkerDones(way) == IF way = "skip" THEN 1 ELSE 0

\* wg.Done on counter n: a negative counter panics
DoneHalt(n, k) == IF n - k < 0 THEN "panic" ELSE "no"

SetSt(i, st) == [rows EXCEPT ![i].st = st]

\* the records the printer writes: f.Headers() and a row's f.ToSlice()
HeaderRec == [hdr |-> TRUE, row |-> NoRow]
RowRec(i) == [hdr |-> FALSE, row |-> i]

\* csv.Writer.Write(record): the record joins the writer's buffer
WriteWithHeader(buf, rec) == buf \o <<HeaderRec, rec>>

CsvWrite(buf, rec) == Append(buf, rec)

\* os.Open and ReadHeader: an error returns before any row is read
CoordOpen ==
    /\ Running /\ mpc = "open"
    /\ \E ok \in BOOLEAN : mpc' = IF ok THEN "read" ELSE "failed"
    /\ UNCHANGED <<rows, nlines, rowCh, rowClosed, printClosed, wg, wpc, wrow,
                   spc, srow, outbuf, outfile, outClosed, halt>>
    /\ UNCHANGED <<cacheVars, wxVars, poolVars, parseVars, muVars, seqVars>>

\* r.Read returns a line; wg.Add(1)
CoordRead(kind) ==
    /\ Running /\ mpc = "read" /\ nlines < MaxRows
    /\ nlines' = nlines + 1
    /\ rows' = Append(rows, [kind |-> kind, st |-> "accepted", dones |-> 0, writes |-> 0])
    /\ wg' = wg + 1
    /\ mpc' = "push"
    /\ UNCHANGED <<rowCh, rowClosed, printClosed, wpc, wrow, spc, srow, outbuf,
                   outfile, outClosed, halt>>
    /\ UNCHANGED <<cacheVars, wxVars, poolVars, parseVars, muVars, seqVars>>

\* r.Read returns an error other than EOF: logged, next line
CoordSkipLine ==
    /\ Running /\ mpc = "read" /\ nlines < MaxRows
    /\ nlines' = nlines + 1
    /\ UNCHANGED <<mpc, rows, rowCh, rowClosed, printClosed, wg, wpc, wrow, spc,
                   srow, outbuf, outfile, outClosed, halt>>
    /\ UNCHANGED <<cacheVars, wxVars, poolVars, parseVars, muVars, seqVars>>

\* a channel that takes every send at once
ChanUnbounded(n) == TRUE

\* a send on rowCh goes through while the buffer has room
ChanHasRoom(n) == n < RowChCap

\* rowCh <- line
CoordPush ==
    /\ Running /\ mpc = "push" /\ ChanHasRoom(Len(rowCh))
    /\ rowCh' = Append(rowCh, Len(rows))
    /\ rows' = SetSt(Len(rows), "queued")
    /\ mpc' = "read"
    /\ UNCHANGED <<nlines, rowClosed, printClosed, wg, wpc, wrow, spc, srow,
                   outbuf, outfile, outClosed, halt>>
    /\ UNCHANGED <<cacheVars, wxVars, poolVars, parseVars, muVars, seqVars>>

\* r.Read returns io.EOF; close(rowCh)
CoordEOF ==
    /\ Running /\ mpc = "read"
    /\ rowClosed' = TRUE
    /\ mpc' = "wait1"
    /\ UNCHANGED <<rows, nlines, rowCh, printClosed, wg, wpc, wrow, spc, srow,
                   outbuf, outfile, outClosed, halt>>
    /\ UNCHANGED <<cacheVars, wxVars, poolVars, parseVars, muVars, seqVars>>

\* wg.Wait, first
CoordWait1 ==
    /\ Running /\ mpc = "wait1" /\ WaitReturns(wg)
    /\ mpc' = "add"
    /\ UNCHANGED <<rows, nlines, rowCh, rowClosed, printClosed, wg, wpc, wrow,
                   spc, srow, outbuf, outfile, outClosed, halt>>
    /\ UNCHANGED <<cacheVars, wxVars, poolVars, parseVars, muVars, seqVars>>

\* wg.Add(1) for the printer's exit
CoordAdd ==
    /\ Running /\ mpc = "add"
    /\ wg' = wg + 1
    /\ mpc' = "closePrint"
    /\ UNCHANGED <<rows, nlines, rowCh, rowClosed, printClosed, wpc, wrow, spc,
                   srow, outbuf, outfile, outClosed, halt>>
    /\ UNCHANGED <<cacheVars, wxVars, poolVars, parseVars, muVars, seqVars>>

\* close(printCh)
CoordClosePrint ==
    /\ Running /\ mpc = "closePrint"
    /\ printClosed' = TRUE
    /\ mpc' = "wait2"
    /\ UNCHANGED <<rows, nlines, rowCh, rowClosed, wg, wpc, wrow, spc, srow,
                   outbuf, outfile, outClosed, halt>>
    /\ UNCHANGED <<cacheVars, wxVars, poolVars, parseVars, muVars, seqVars>>

\* wg.Wait, second; processFile returns nil
CoordWait2 ==
    /\ Running /\ mpc = "wait2" /\ wg = 0
    /\ mpc' = "returned"
    /\ UNCHANGED <<rows, nlines, rowCh, rowClosed, printClosed, wg, wpc, wrow,
                   spc, srow, outbuf, outfile, outClosed, halt>>
    /\ UNCHANGED <<cacheVars, wxVars, poolVars, parseVars, muVars, seqVars>>

\* main returns after the last file: the process ends
MainExit ==
    /\ Running /\ mpc \in {"returned", "failed"}
    /\ halt' = "exit"
    /\ UNCHANGED <<mpc, rows, nlines, rowCh, rowClosed, printClosed, wg, wpc,
                   wrow, spc, srow, outbuf, outfile, outClosed>>
    /\ UNCHANGED <<cacheVars, wxVars, poolVars, parseVars, muVars, seqVars>>

\* for r := range rowCh, a row is there
WorkerRecv(w) ==
    /\ Running /\ wpc[w] = "recv" /\ rowCh # <<>>
    /\ wrow' = [wrow EXCEPT ![w] = Head(rowCh)]
    /\ rowCh' = Tail(rowCh)
    /\ rows' = SetSt(Head(rowCh), "parsing")
    /\ wpc' = [wpc EXCEPT ![w] = "parse"]
    /\ UNCHANGED <<mpc, nlines, rowClosed, printClosed, wg, spc, srow, outbuf,
                   outfile, outClosed, halt>>
    /\ UNCHANGED <<cacheVars, wxVars, poolVars, parseVars, muVars, seqVars>>

\* a receive loop that waits for a next row whatever happens to the channel
RangeNeverEnds(closed, n) == FALSE

\* range over a channel ends once it is closed and nothing is left in it
RangeEnds(closed, n) == closed /\ n = 0

\* for r := range rowCh, the channel is closed and drained
WorkerExit(w) ==
    /\ Running /\ wpc[w] = "recv" /\ RangeEnds(rowClosed, Len(rowCh))
    /\ wpc' = [wpc EXCEPT ![w] = "exit"]
    /\ UNCHANGED <<mpc, rows, nlines, rowCh, rowClosed, printClosed, wg, wrow,
                   spc, srow, outbuf, outfile, outClosed, halt>>
    /\ UNCHANGED <<cacheVars, wxVars, poolVars, parseVars, muVars, seqVars>>

\* the way out of one step of the loop body: skip (log, wg.Done, continue) or on
WorkerStep(w, way, next) ==
    LET i == wrow[w]
        k == WorkerDones(way)
    IN  /\ wg' = wg - k
        /\ halt' = IF way = "fatal" THEN "fatal" ELSE DoneHalt(wg, k)
        /\ rows' = [rows EXCEPT ![i].st = IF way = "skip" THEN "skipped"
                                          ELSE IF way = "fatal" THEN @ ELSE next,
                                ![i].dones = @ + k]
        /\ wpc' = [wpc EXCEPT ![w] = IF way = "skip" THEN "recv"
                                     ELSE IF way = "fatal" THEN @ ELSE next]
        /\ wrow' = [wrow EXCEPT ![w] = IF way = "skip" THEN NoRow ELSE @]

\* f, err := parse(r)
WorkerParse(w) ==
    /\ Running /\ wpc[w] = "parse"
    /\ WorkerStep(w, AfterParse(rows[wrow[w]].kind), "weather")
    /\ UNCHANGED <<mpc, nlines, rowCh, rowClosed, printClosed, spc, srow, outbuf,
                   outfile, outClosed>>
    /\ UNCHANGED <<cacheVars, wxVars, poolVars, parseVars, muVars, seqVars>>

\* err = getWeatherData(f, c)
WorkerWeather(w) ==
    /\ Running /\ wpc[w] = "weather"
    /\ WorkerStep(w, AfterWeather(rows[wrow[w]].kind), "send")
    /\ UNCHANGED <<mpc, nlines, rowCh, rowClosed, printClosed, spc, srow, outbuf,
                   outfile, outClosed>>
    /\ UNCHANGED <<cacheVars, wxVars, poolVars, parseVars, muVars, seqVars>>

\* printCh <- f.ToSlice(): the send meets the printer's receive; on a closed
\* channel it panics
WorkerSend(w) ==
    /\ Running /\ wpc[w] = "send" /\ (printClosed \/ spc = "loop")
    /\ IF printClosed
       THEN /\ halt' = "panic"
            /\ UNCHANGED <<rows, wg, wpc, wrow, spc, srow>>
       ELSE /\ LET k == WorkerDones("send")
               IN  /\ wg' = wg - k
                   /\ halt' = DoneHalt(wg, k)
                   /\ rows' = [rows EXCEPT ![wrow[w]].st = "atsink",
                                           ![wrow[w]].dones = @ + k]
            /\ srow' = wrow[w]
            /\ spc' = "write"
            /\ wpc' = [wpc EXCEPT ![w] = "recv"]
            /\ wrow' = [wrow EXCEPT ![w] = NoRow]
    /\ UNCHANGED <<mpc, nlines, rowCh, rowClosed, printClosed, outbuf, outfile,
                   outClosed>>
    /\ UNCHANGED <<cacheVars, wxVars, poolVars, parseVars, muVars, seqVars>>

\* os.Create(*outName); a failure is fatal
SinkCreate ==
    /\ Running /\ spc = "create"
    /\ \E ok \in BOOLEAN :
           /\ spc' = IF ok THEN "header" ELSE spc
           /\ halt' = IF ok THEN halt ELSE "fatal"
    /\ UNCHANGED <<mpc, rows, nlines, rowCh, rowClosed, printClosed, wg, wpc,
                   wrow, srow, outbuf, outfile, outClosed>>
    /\ UNCHANGED <<cacheVars, wxVars, poolVars, parseVars, muVars, seqVars>>

\* w.Write(f.Headers())
SinkHeader ==
    /\ Running /\ spc = "header"
    /\ outbuf' = CsvWrite(outbuf, HeaderRec)
    /\ spc' = "loop"
    /\ UNCHANGED <<mpc, rows, nlines, rowCh, rowClosed, printClosed, wg, wpc,
                   wrow, srow, outfile, outClosed, halt>>
    /\ UNCHANGED <<cacheVars, wxVars, poolVars, parseVars, muVars, seqVars>>

\* w.Write(j); wg.Done()
SinkWrite ==
    /\ Running /\ spc = "write"
    /\ outbuf' = CsvWrite(outbuf, RowRec(srow))
    /\ rows' = [rows EXCEPT ![srow].st = "written", ![srow].writes = @ + 1,
                            ![srow].dones = @ + 1]
    /\ wg' = wg - 1
    /\ halt' = DoneHalt(wg, 1)
    /\ srow' = NoRow
    /\ spc' = "loop"
    /\ UNCHANGED <<mpc, nlines, rowCh, rowClosed, printClosed, wpc, wrow,
                   outfile, outClosed>>
    /\ UNCHANGED <<cacheVars, wxVars, poolVars, parseVars, muVars, seqVars>>

\* for j := range printCh ends: the channel is closed
SinkLoopEnd ==
    /\ Running /\ spc = "loop" /\ printClosed
    /\ spc' = "final"
    /\ UNCHANGED <<mpc, rows, nlines, rowCh, rowClosed, printClosed, wg, wpc,
                   wrow, srow, outbuf, outfile, outClosed, halt>>
    /\ UNCHANGED <<cacheVars, wxVars, poolVars, parseVars, muVars, seqVars>>

\* the last wg.Done(), before the deferred calls run
SinkFinalDone ==
    /\ Running /\ spc = "final"
    /\ wg' = wg - 1
    /\ halt' = DoneHalt(wg, 1)
    /\ spc' = "flush"
    /\ UNCHANGED <<mpc, rows, nlines, rowCh, rowClosed, printClosed, wpc, wrow,
                   srow, outbuf, outfile, outClosed>>
    /\ UNCHANGED <<cacheVars, wxVars, poolVars, parseVars, muVars, seqVars>>

\* deferred w.Flush()
SinkFlush ==
    /\ Running /\ spc = "flush"
    /\ outfile' = outfile \o outbuf
    /\ outbuf' = <<>>
    /\ spc' = "close"
    /\ UNCHANGED <<mpc, rows, nlines, rowCh, rowClosed, printClosed, wg, wpc,
                   wrow, srow, outClosed, halt>>
    /\ UNCHANGED <<cacheVars, wxVars, poolVars, parseVars, muVars, seqVars>>

\* deferred outF.Close()
SinkClose ==
    /\ Running /\ spc = "close"
    /\ outClosed' = TRUE
    /\ spc' = "done"
    /\ UNCHANGED <<mpc, rows, nlines, rowCh, rowClosed, printClosed, wg, wpc,
                   wrow, srow, outbuf, outfile, halt>>
    /\ UNCHANGED <<cacheVars, wxVars, poolVars, parseVars, muVars, seqVars>>

NextPipe ==
    \/ CoordOpen
    \/ \E kind \in RowKinds : CoordRead(kind)
    \/ CoordSkipLine
    \/ CoordPush
    \/ CoordEOF
    \/ CoordWait1
    \/ CoordAdd
    \/ CoordClosePrint
    \/ CoordWait2
    \/ MainExit
    \/ \E w \in Workers : WorkerRecv(w)
    \/ \E w \in Workers : WorkerExit(w)
    \/ \E w \in Workers : WorkerParse(w)
    \/ \E w \in Workers : WorkerWeather(w)
    \/ \E w \in Workers : WorkerSend(w)
    \/ SinkCreate
    \/ SinkHeader
    \/ SinkWrite
    \/ SinkLoopEnd
    \/ SinkFinalDone
    \/ SinkFlush
    \/ SinkClose

\* the same pipeline on an input file none of whose rows has a failing fetch
FetchOkKinds == {"ok", "parseErr"}

NextPipeFetchOk ==
    \/ CoordOpen
    \/ \E kind \in FetchOkKinds : CoordRead(kind)
    \/ CoordSkipLine
    \/ CoordPush
    \/ CoordEOF
    \/ CoordWait1
    \/ CoordAdd
    \/ CoordClosePrint
    \/ CoordWait2
    \/ MainExit
    \/ \E w \in Workers : WorkerRecv(w)
    \/ \E w \in Workers : WorkerExit(w)
    \/ \E w \in Workers : WorkerParse(w)
    \/ \E w \in Workers : WorkerWeather(w)
    \/ \E w \in Workers : WorkerSend(w)
    \/ SinkCreate
    \/ SinkHeader
    \/ SinkWrite
    \/ SinkLoopEnd
    \/ SinkFinalDone
    \/ SinkFlush
    \/ SinkClose

\* the scheduler runs every goroutine that can take a step: processFile's
\* own, each worker's and the printer's.  After processFile has returned
\* main goes on to other files or ends the process: no step is owed there.
CoordStep ==
    \/ CoordOpen \/ (\E kind \in FetchOkKinds : CoordRead(kind)) \/ CoordSkipLine
    \/ CoordPush \/ CoordEOF \/ CoordWait1 \/ CoordAdd \/ CoordClosePrint
    \/ CoordWait2

WorkerTurn(w) ==
    \/ WorkerRecv(w) \/ WorkerExit(w) \/ WorkerParse(w) \/ WorkerWeather(w)
    \/ WorkerSend(w)

SinkStep ==
    \/ SinkCreate \/ SinkHeader \/ SinkWrite \/ SinkLoopEnd \/ SinkFinalDone
    \/ SinkFlush \/ SinkClose

FairPipe ==
    /\ WF_vars(CoordStep)
    /\ \A w \in Workers : WF_vars(WorkerTurn(w))
    /\ WF_vars(SinkStep)


\* ---------------------------------------------------------- weather.Get
\* weather.Get(a, t, conc) over the cachemap package; time in ticks,
\* HourTicks to the hour, and the provider answers with the DayHours hourly
\* points of the day of the requested time.
GateCap == 1
Airports == {<<"J", "F", "K">>, <<"L", "A", "X">>}
Ticks == 0..MaxTick
DayTicks == DayHours * HourTicks

\* t.Round(time.Hour): to the nearest hour, halfway up
Round(t) == ((2 * t + HourTicks) \div (2 * HourTicks)) * HourTicks

\* fmt.Sprint of an integer: its decimal digits
Digit(d) == <<"0", "1", "2", "3", "4", "5", "6", "7", "8", "9">>[d + 1]

RECURSIVE Sprint(_)
Sprint(n) == IF n < 10 THEN <<Digit(n)>> ELSE Sprint(n \div 10) \o <<Digit(n % 10)>>

\* sha1.Sum, taken to be free of collisions
Sha1(b) == <<"sha1", b>>

\* the key of a location and a time: sha1 of a.IATA + fmt.Sprint(unix time)
HashKey(iata, tm) == Sha1(iata \o Sprint(tm))

\* the key aggressivelyCache stores a data point under
KeyOfTimeOnly(iata, v) == Sha1(Sprint(v.time))

BackfillKey(iata, v) == HashKey(iata, v.time)

\* the provider's answer: f.Hourly.Data and f.Currently
Hourly(a, tm) ==
    LET d == (tm \div DayTicks) * DayTicks
    IN  [j \in 1..DayHours |-> [blk |-> "hourly", a |-> a, time |-> d + (j - 1) * HourTicks]]

Currently(a, tm) == [blk |-> "currently", a |-> a, time |-> tm]

AllKeys == {HashKey(a, Round(t)) : a \in Airports, t \in Ticks}

\* after darksky.Get: on an error log.Fatalf ends the process
ReturnsError(err) == IF err THEN "return" ELSE "cache"

AfterFetch(err) == IF err THEN "fatal" ELSE "cache"

InitWx ==
    /\ xpc = [w \in Workers |-> "idle"]
    /\ xreq = [w \in Workers |-> [a |-> <<>>, tm |-> 0, late |-> FALSE, present |-> FALSE]]
    /\ xresp = [w \in Workers |-> <<>>]
    /\ xres = [w \in Workers |-> [how |-> "none"]]
    /\ cmap = EmptyMap
    /\ cmfile = <<>>
    /\ conc = 0
    /\ fetches = [k \in AllKeys |-> 0]
    /\ ncalls = 0
    /\ ndone = 0
    /\ backfilled = {}
    /\ failSnap = [failed |-> FALSE]
    /\ xhalt = "no"

XRunning == xhalt = "no"

ReqKey(w) == HashKey(xreq[w].a, xreq[w].tm)

\* after cachemap.Get(hash): a hit returns the payload, a miss goes on
AlwaysFetch(found) == "gate"

AfterLookup(found) == IF found THEN "return" ELSE "gate"

\* weather.Get is called: the key, and cachemap.Get(hash)
WxCheck(w, a, t) ==
    /\ XRunning /\ xpc[w] = "idle" /\ ncalls < MaxCalls
    /\ ncalls' = ncalls + 1
    /\ LET key == HashKey(a, Round(t))
           res == CacheGet(cmap, key)
       IN  /\ xreq' = [xreq EXCEPT ![w] = [a |-> a, tm |-> Round(t),
                                            late |-> [a |-> a, tm |-> Round(t)] \in backfilled,
                                            present |-> res.found]]
           /\ IF AfterLookup(res.found) = "return"
              THEN /\ xres' = [xres EXCEPT ![w] = [how |-> "hit", a |-> a, tm |-> Round(t),
                                                   v |-> res.v]]
                   /\ ndone' = ndone + 1
                   /\ xpc' = xpc
              ELSE /\ xpc' = [xpc EXCEPT ![w] = "gate"]
                   /\ UNCHANGED <<xres, ndone>>
    /\ UNCHANGED <<xresp, cmap, cmfile, conc, fetches, backfilled, failSnap, xhalt>>
    /\ UNCHANGED <<cacheVars, pipeVars, poolVars, parseVars, muVars, seqVars>>

\* a send on the buffered conc channel goes through while a slot is free
GateAlwaysOpen(n) == TRUE

GateOpen(n) == n < GateCap

\* conc <- true
WxAcquire(w) ==
    /\ XRunning /\ xpc[w] = "gate" /\ GateOpen(conc)
    /\ conc' = conc + 1
    /\ xpc' = [xpc EXCEPT ![w] = "fetch"]
    /\ UNCHANGED <<xreq, xresp, xres, cmap, cmfile, fetches, ncalls, ndone,
                   backfilled, failSnap, xhalt>>
    /\ UNCHANGED <<cacheVars, pipeVars, poolVars, parseVars, muVars, seqVars>>

\* darksky.Get: an answer, or an error
WxFetch(w) ==
    /\ XRunning /\ xpc[w] = "fetch"
    /\ fetches' = [fetches EXCEPT ![ReqKey(w)] = @ + 1]
    /\ \E err \in BOOLEAN :
           LET way == AfterFetch(err)
           IN  /\ failSnap' = IF err
                              THEN [failed |-> TRUE, w |-> w, ndone |-> ndone,
                                    fetches |-> fetches', cmap |-> cmap]
                              ELSE failSnap
               /\ xhalt' = IF way = "fatal" THEN "fatal" ELSE xhalt
               /\ xresp' = [xresp EXCEPT ![w] =
                               IF way = "cache" THEN Hourly(xreq[w].a, xreq[w].tm) ELSE @]
               /\ xpc' = [xpc EXCEPT ![w] =
                             IF way = "cache" THEN "cache"
                             ELSE IF way = "return" THEN "idle" ELSE @]
               /\ xres' = [xres EXCEPT ![w] = IF way = "return" THEN [how |-> "error"] ELSE @]
               /\ ndone' = IF way = "return" THEN ndone + 1 ELSE ndone
               /\ conc' = IF way = "return" THEN conc - 1 ELSE conc
    /\ UNCHANGED <<xreq, cmap, cmfile, ncalls, backfilled>>
    /\ UNCHANGED <<cacheVars, pipeVars, poolVars, parseVars, muVars, seqVars>>

\* aggressivelyCache, one data point: cachemap.Set(hash, json)
WxBackfill(w) ==
    /\ XRunning /\ xpc[w] = "cache" /\ xresp[w] # <<>>
    /\ LET v == Head(xresp[w])
           key == BackfillKey(xreq[w].a, v)
       IN  /\ cmap' = LoadOrStore(cmap, key, v)
           /\ cmfile' = IF SetAppends(key \in DOMAIN cmap)
                        THEN Append(cmfile, <<key, v>>) ELSE cmfile
    /\ xresp' = [xresp EXCEPT ![w] = Tail(@)]
    /\ UNCHANGED <<xpc, xreq, xres, conc, fetches, ncalls, ndone, backfilled,
                   failSnap, xhalt>>
    /\ UNCHANGED <<cacheVars, pipeVars, poolVars, parseVars, muVars, seqVars>>

\* f.Currently is returned; the deferred <-conc
WxReturn(w) ==
    /\ XRunning /\ xpc[w] = "cache" /\ xresp[w] = <<>>
    /\ xres' = [xres EXCEPT ![w] = [how |-> "miss", a |-> xreq[w].a, tm |-> xreq[w].tm,
                                    v |-> Currently(xreq[w].a, xreq[w].tm)]]
    /\ backfilled' = backfilled \cup
           {[a |-> xreq[w].a, tm |-> Hourly(xreq[w].a, xreq[w].tm)[j].time] : j \in 1..DayHours}
    /\ conc' = conc - 1
    /\ ndone' = ndone + 1
    /\ xpc' = [xpc EXCEPT ![w] = "idle"]
    /\ UNCHANGED <<xreq, xresp, cmap, cmfile, fetches, ncalls, failSnap, xhalt>>
    /\ UNCHANGED <<cacheVars, pipeVars, poolVars, parseVars, muVars, seqVars>>

NextWeather ==
    \/ \E w \in Workers, a \in Airports, t \in Ticks : WxCheck(w, a, t)
    \/ \E w \in Workers : WxAcquire(w)
    \/ \E w \in Workers : WxFetch(w)
    \/ \E w \in Workers : WxBackfill(w)
    \/ \E w \in Workers : WxReturn(w)


\* ------------------------------------------- the parser and worker pools
\* readFile of the revision with a parser pool and a worker pool: the reader
\* sends &row on rowc, each parser fills its one variable f and sends &f on
\* jobs, each worker enriches the Flight it is pointed to and sends its slice
\* on printc. All three channels are unbuffered.
NoParser == 0
NoFlight == [row |-> NoRow, wx |-> NoRow]

InitPool ==
    /\ rpc = "read"
    /\ rn = 0
    /\ rowVar = NoRow
    /\ ppc = [p \in Workers |-> "recv"]
    /\ pf = [p \in Workers |-> NoFlight]
    /\ kpc = [w \in Workers |-> "recv"]
    /\ kptr = [w \in Workers |-> NoParser]
    /\ kgot = [w \in Workers |-> NoRow]
    /\ jobsClosed = FALSE
    /\ pcloses = 0
    /\ pwg = 0
    /\ zpc = "header"
    /\ zrec = NoFlight
    /\ zout = <<>>
    /\ phalt = "no"

PRunning == phalt = "no"

\* row, err = r.Read() gives a line; wg.Add(1)
PoolRead ==
    /\ PRunning /\ rpc = "read" /\ rn < MaxRows
    /\ rn' = rn + 1
    /\ rowVar' = rn + 1
    /\ pwg' = pwg + 1
    /\ rpc' = "send"
    /\ UNCHANGED <<ppc, pf, kpc, kptr, kgot, jobsClosed, pcloses, zpc, zrec, zout, phalt>>
    /\ UNCHANGED <<cacheVars, pipeVars, wxVars, parseVars, muVars, seqVars>>

\* row, err = r.Read() gives a nil row and io.EOF: the loop ends
PoolEOF ==
    /\ PRunning /\ rpc = "read"
    /\ rowVar' = NoRow
    /\ rpc' = "wait"
    /\ UNCHANGED <<rn, ppc, pf, kpc, kptr, kgot, jobsClosed, pcloses, pwg, zpc, zrec, zout, phalt>>
    /\ UNCHANGED <<cacheVars, pipeVars, wxVars, parseVars, muVars, seqVars>>

\* rowc <- &row meets a parser's receive: the parser holds the address of row
PoolSendRow(p) ==
    /\ PRunning /\ rpc = "send" /\ ppc[p] = "recv"
    /\ rpc' = "read"
    /\ ppc' = [ppc EXCEPT ![p] = "parse"]
    /\ UNCHANGED <<rn, rowVar, pf, kpc, kptr, kgot, jobsClosed, pcloses, pwg, zpc, zrec, zout, phalt>>
    /\ UNCHANGED <<cacheVars, pipeVars, wxVars, parseVars, muVars, seqVars>>

\* the loop body of parser: it reads the row through its pointer and writes
\* the fields of f; a lookup or time error skips the row (log, wg.Done). A nil
\* row, left by the reader at the end of the file, makes (*r)[i] panic.
PoolParse(p) ==
    /\ PRunning /\ ppc[p] = "parse"
    /\ IF rowVar = NoRow
       THEN /\ phalt' = "panic"
            /\ UNCHANGED <<ppc, pf, pwg>>
       ELSE /\ pf' = [pf EXCEPT ![p].row = rowVar]
            /\ \E ok \in BOOLEAN :
                   /\ ppc' = [ppc EXCEPT ![p] = IF ok THEN "send" ELSE "recv"]
                   /\ pwg' = IF ok THEN pwg ELSE pwg - 1
            /\ UNCHANGED phalt
    /\ UNCHANGED <<rpc, rn, rowVar, kpc, kptr, kgot, jobsClosed, pcloses, zpc, zrec, zout>>
    /\ UNCHANGED <<cacheVars, pipeVars, wxVars, parseVars, muVars, seqVars>>

\* jobs <- &f meets a worker's receive: the worker holds the address of the
\* parser's f, and the parser goes back to receive the next row
PoolSendJob(p, w) ==
    /\ PRunning /\ ppc[p] = "send" /\ kpc[w] = "recv" /\ ~jobsClosed
    /\ ppc' = [ppc EXCEPT ![p] = "recv"]
    /\ kpc' = [kpc EXCEPT ![w] = "weather"]
    /\ kptr' = [kptr EXCEPT ![w] = p]
    /\ kgot' = [kgot EXCEPT ![w] = pf[p].row]
    /\ UNCHANGED <<rpc, rn, rowVar, pf, jobsClosed, pcloses, pwg, zpc, zrec, zout, phalt>>
    /\ UNCHANGED <<cacheVars, pipeVars, wxVars, parseVars, muVars, seqVars>>

\* worker: weather.Get for the Flight it is pointed to, whose weather fields
\* it writes
PoolWeather(w) ==
    /\ PRunning /\ kpc[w] = "weather"
    /\ pf' = [pf EXCEPT ![kptr[w]].wx = pf[kptr[w]].row]
    /\ kpc' = [kpc EXCEPT ![w] = "print"]
    /\ UNCHANGED <<rpc, rn, rowVar, ppc, kptr, kgot, jobsClosed, pcloses, pwg, zpc, zrec, zout, phalt>>
    /\ UNCHANGED <<cacheVars, pipeVars, wxVars, parseVars, muVars, seqVars>>

\* printc <- f.toSlice() meets the printer's receive
PoolSendSlice(w) ==
    /\ PRunning /\ kpc[w] = "print" /\ zpc = "loop" /\ pcloses = 0
    /\ zrec' = pf[kptr[w]]
    /\ zpc' = "write"
    /\ kpc' = [kpc EXCEPT ![w] = "recv"]
    /\ kptr' = [kptr EXCEPT ![w] = NoParser]
    /\ UNCHANGED <<rpc, rn, rowVar, ppc, pf, kgot, jobsClosed, pcloses, pwg, zout, phalt>>
    /\ UNCHANGED <<cacheVars, pipeVars, wxVars, parseVars, muVars, seqVars>>

\* for f := range jobs ends: jobs is closed
PoolWorkerLoopEnd(w) ==
    /\ PRunning /\ kpc[w] = "recv" /\ jobsClosed
    /\ kpc' = [kpc EXCEPT ![w] = "close"]
    /\ UNCHANGED <<rpc, rn, rowVar, ppc, pf, kptr, kgot, jobsClosed, pcloses, pwg, zpc, zrec, zout, phalt>>
    /\ UNCHANGED <<cacheVars, pipeVars, wxVars, parseVars, muVars, seqVars>>

\* the outcome of close(printc) after n earlier calls: a closed channel panics
CloseHalt(n) == IF n >= 1 THEN "panic" ELSE "no"

\* close(printc), by every worker
PoolWorkerClose(w) ==
    /\ PRunning /\ kpc[w] = "close"
    /\ pcloses' = pcloses + 1
    /\ phalt' = CloseHalt(pcloses)
    /\ kpc' = [kpc EXCEPT ![w] = "done"]
    /\ UNCHANGED <<rpc, rn, rowVar, ppc, pf, kptr, kgot, jobsClosed, pwg, zpc, zrec, zout>>
    /\ UNCHANGED <<cacheVars, pipeVars, wxVars, parseVars, muVars, seqVars>>

\* printer: w.Write(header)
PoolHeader ==
    /\ PRunning /\ zpc = "header"
    /\ zout' = Append(zout, NoFlight)
    /\ zpc' = "loop"
    /\ UNCHANGED <<rpc, rn, rowVar, ppc, pf, kpc, kptr, kgot, jobsClosed, pcloses, pwg, zrec, phalt>>
    /\ UNCHANGED <<cacheVars, pipeVars, wxVars, parseVars, muVars, seqVars>>

\* printer: w.Write(*j); wg.Done()
PoolWrite ==
    /\ PRunning /\ zpc = "write"
    /\ zout' = Append(zout, zrec)
    /\ pwg' = pwg - 1
    /\ zrec' = NoFlight
    /\ zpc' = "loop"
    /\ UNCHANGED <<rpc, rn, rowVar, ppc, pf, kpc, kptr, kgot, jobsClosed, pcloses, phalt>>
    /\ UNCHANGED <<cacheVars, pipeVars, wxVars, parseVars, muVars, seqVars>>

\* printer: for j := range jobs ends, the deferred Flush and Close run
PoolPrinterExit ==
    /\ PRunning /\ zpc = "loop" /\ pcloses >= 1
    /\ zpc' = "done"
    /\ UNCHANGED <<rpc, rn, rowVar, ppc, pf, kpc, kptr, kgot, jobsClosed, pcloses, pwg, zrec, zout, phalt>>
    /\ UNCHANGED <<cacheVars, pipeVars, wxVars, parseVars, muVars, seqVars>>

\* readFile: wg.Wait()
PoolWait ==
    /\ PRunning /\ rpc = "wait" /\ WaitReturns(pwg)
    /\ rpc' = "close"
    /\ UNCHANGED <<rn, rowVar, ppc, pf, kpc, kptr, kgot, jobsClosed, pcloses, pwg, zpc, zrec, zout, phalt>>
    /\ UNCHANGED <<cacheVars, pipeVars, wxVars, parseVars, muVars, seqVars>>

\* readFile: close(jobs), and it returns
PoolCloseJobs ==
    /\ PRunning /\ rpc = "close"
    /\ jobsClosed' = TRUE
    /\ rpc' = "returned"
    /\ UNCHANGED <<rn, rowVar, ppc, pf, kpc, kptr, kgot, pcloses, pwg, zpc, zrec, zout, phalt>>
    /\ UNCHANGED <<cacheVars, pipeVars, wxVars, parseVars, muVars, seqVars>>

\* main returns after the last file: the process ends
PoolMainExit ==
    /\ PRunning /\ rpc = "returned"
    /\ phalt' = "exit"
    /\ UNCHANGED <<rpc, rn, rowVar, ppc, pf, kpc, kptr, kgot, jobsClosed, pcloses, pwg, zpc, zrec, zout>>
    /\ UNCHANGED <<cacheVars, pipeVars, wxVars, parseVars, muVars, seqVars>>

NextPool ==
    \/ PoolRead
    \/ PoolEOF
    \/ \E p \in Workers : PoolSendRow(p)
    \/ \E p \in Workers : PoolParse(p)
    \/ \E p \in Workers, w \in Workers : PoolSendJob(p, w)
    \/ \E w \in Workers : PoolWeather(w)
    \/ \E w \in Workers : PoolSendSlice(w)
    \/ \E w \in Workers : PoolWorkerLoopEnd(w)
    \/ \E w \in Workers : PoolWorkerClose(w)
    \/ PoolHeader
    \/ PoolWrite
    \/ PoolPrinterExit
    \/ PoolWait
    \/ PoolCloseJobs
    \/ PoolMainExit

\* ------------------------------------------- cachemap, mutex revision
\* Set, Get, Load, Export and append of the package guarded by mu
defaultCache == "cache.txt"
TxtPaths == {defaultCache, "snap.txt"}
NoOne == 0
NoArg == [k |-> <<>>, v |-> <<>>]

InitMu ==
    /\ mu = [w |-> NoOne, r |-> {}]
    /\ cache = EmptyMap
    /\ cachename = ""
    /\ initialized = FALSE
    /\ txt = [f \in TxtPaths |-> <<>>]
    /\ gpc = [p \in Procs |-> "idle"]
    /\ garg = [p \in Procs |-> NoArg]
    /\ gret = [p \in Procs |-> NotFound]
    /\ gops = 0

\* mu.Lock() and mu.RLock() return once the mutex allows it; the mutex does
\* not know who holds it
CanLock == mu.w = NoOne /\ mu.r = {}
CanRLock == mu.w = NoOne

MuStart(p) == gpc[p] = "idle" /\ gops < MaxOps

\* the file after append(k, v) of Set
SetAppend(m, k, v, text) == text \o FormatLine(k, v)

\* where a call goes after its check of initialized: into Load, or on
AfterInitCheck(init, body, load) == IF init THEN body ELSE load

\* Set: mu.Lock(), the check of initialized
MuSetEnter(p, k, v) ==
    /\ MuStart(p) /\ CanLock
    /\ gops' = gops + 1
    /\ mu' = [mu EXCEPT !.w = p]
    /\ garg' = [garg EXCEPT ![p] = [k |-> k, v |-> v]]
    /\ gpc' = [gpc EXCEPT ![p] = AfterInitCheck(initialized, "setBody", "setLoad")]
    /\ UNCHANGED <<cache, cachename, initialized, txt, gret>>
    /\ UNCHANGED <<cacheVars, pipeVars, wxVars, poolVars, parseVars, seqVars>>

\* Set: append(key, value), the store of an absent key, the deferred Unlock
MuSetBody(p) ==
    /\ gpc[p] = "setBody"
    /\ txt' = [txt EXCEPT ![cachename] = SetAppend(cache, garg[p].k, garg[p].v, @)]
    /\ cache' = LoadOrStore(cache, garg[p].k, garg[p].v)
    /\ mu' = [mu EXCEPT !.w = NoOne]
    /\ gpc' = [gpc EXCEPT ![p] = "idle"]
    /\ UNCHANGED <<cachename, initialized, garg, gret, gops>>
    /\ UNCHANGED <<cacheVars, pipeVars, wxVars, poolVars, parseVars, seqVars>>

\* Get: mu.RLock(), the check of initialized
MuGetEnter(p, k) ==
    /\ MuStart(p) /\ CanRLock
    /\ gops' = gops + 1
    /\ mu' = [mu EXCEPT !.r = @ \cup {p}]
    /\ garg' = [garg EXCEPT ![p] = [k |-> k, v |-> <<>>]]
    /\ gpc' = [gpc EXCEPT ![p] = AfterInitCheck(initialized, "getBody", "getLoad")]
    /\ UNCHANGED <<cache, cachename, initialized, txt, gret>>
    /\ UNCHANGED <<cacheVars, pipeVars, wxVars, poolVars, parseVars, seqVars>>

\* Get: the lookup, the deferred RUnlock
MuGetBody(p) ==
    /\ gpc[p] = "getBody"
    /\ gret' = [gret EXCEPT ![p] = CacheGet(cache, garg[p].k)]
    /\ mu' = [mu EXCEPT !.r = @ \ {p}]
    /\ gpc' = [gpc EXCEPT ![p] = "idle"]
    /\ UNCHANGED <<cache, cachename, initialized, txt, garg, gops>>
    /\ UNCHANGED <<cacheVars, pipeVars, wxVars, poolVars, parseVars, seqVars>>

\* where Load returns to
LoadReturn(pc) ==
    CASE pc = "setLoad" -> "setBody"
      [] pc = "getLoad" -> "getBody"
      [] OTHER -> "idle"

\* Load(filename), called by the program or from inside Set and Get:
\* mu.Lock(), the file read into a new map, the deferred Unlock
MuLoad(p, filename) ==
    /\ \/ MuStart(p) /\ gops' = gops + 1
       \/ gpc[p] \in {"setLoad", "getLoad"} /\ filename = defaultCache /\ gops' = gops
    /\ CanLock
    /\ cachename' = filename
    /\ initialized' = TRUE
    /\ cache' = LoadLines(EmptyMap, ScanLines(txt[filename]), 1)
    /\ gpc' = [gpc EXCEPT ![p] = LoadReturn(@)]
    /\ UNCHANGED <<mu, txt, garg, gret>>
    /\ UNCHANGED <<cacheVars, pipeVars, wxVars, poolVars, parseVars, seqVars>>

\* Export(filename): mu.Lock(), the file rewritten from the map, Unlock
MuExport(p, filename) ==
    /\ MuStart(p) /\ CanLock
    /\ gops' = gops + 1
    /\ cachename' = filename
    /\ initialized' = TRUE
    /\ \E order \in Orders(DOMAIN cache) :
           txt' = [txt EXCEPT ![filename] = ExportBytes(cache, order)]
    /\ UNCHANGED <<mu, cache, gpc, garg, gret>>
    /\ UNCHANGED <<cacheVars, pipeVars, wxVars, poolVars, parseVars, seqVars>>

NextMu ==
    \/ \E p \in Procs, k \in Keys, v \in Vals : MuSetEnter(p, k, v)
    \/ \E p \in Procs : MuSetBody(p)
    \/ \E p \in Procs, k \in Keys : MuGetEnter(p, k)
    \/ \E p \in Procs : MuGetBody(p)
    \/ \E p \in Procs, f \in TxtPaths : MuLoad(p, f)
    \/ \E p \in Procs, f \in TxtPaths : MuExport(p, f)

\* ------------------------------------ readFile, the semaphore revision
\* readFile handles each row in a function it calls itself, between a send
\* on jobs and a receive from it; printer writes what arrives on printc
concurrencyLimit == 8

InitSeq ==
    /\ rdpc = "read"
    /\ rdrow = NoRow
    /\ jobs = 0
    /\ rdwg = 0
    /\ ptclosed = FALSE
    /\ ptpc = "create"
    /\ ptrec = NoRow
    /\ ptout = <<>>
    /\ rdhalt = "no"

\* jobs <- true goes through while the buffer has room
SemHasRoom(n) == n < concurrencyLimit

\* a row handler that returns without its receive from jobs
JobsKept(n) == n

\* <-jobs: one token leaves the channel
JobsAfterRelease(n) == n - 1

\* r.Read returns a row; wg.Add(1)
SeqRead ==
    /\ rdhalt = "no" /\ rdpc = "read" /\ rdrow < MaxRows
    /\ rdrow' = rdrow + 1
    /\ rdwg' = rdwg + 1
    /\ rdpc' = "acquire"
    /\ UNCHANGED <<jobs, ptclosed, ptpc, ptrec, ptout, rdhalt>>
    /\ UNCHANGED <<cacheVars, pipeVars, wxVars, poolVars, parseVars, muVars>>

\* jobs <- true
SeqAcquire ==
    /\ rdhalt = "no" /\ rdpc = "acquire" /\ SemHasRoom(jobs)
    /\ jobs' = jobs + 1
    /\ rdpc' = "handle"
    /\ UNCHANGED <<rdrow, rdwg, ptclosed, ptpc, ptrec, ptout, rdhalt>>
    /\ UNCHANGED <<cacheVars, pipeVars, wxVars, poolVars, parseVars, muVars>>

\* parseRow and parseWeatherData: the row is skipped, enriched, or the
\* weather lookup ends the process
SeqHandle ==
    /\ rdhalt = "no" /\ rdpc = "handle"
    /\ \E kind \in {"ok", "parseErr", "wxFatal"} :
           /\ rdpc' = IF kind = "ok" THEN "send" ELSE IF kind = "parseErr" THEN "release" ELSE rdpc
           /\ rdhalt' = IF kind = "wxFatal" THEN "fatal" ELSE rdhalt
    /\ UNCHANGED <<rdrow, jobs, rdwg, ptclosed, ptpc, ptrec, ptout>>
    /\ UNCHANGED <<cacheVars, pipeVars, wxVars, poolVars, parseVars, muVars>>

\* printc <- *toSlice(f) meets the printer's receive
SeqSend ==
    /\ rdhalt = "no" /\ rdpc = "send" /\ ptpc = "loop"
    /\ ptrec' = rdrow
    /\ ptpc' = "write"
    /\ rdpc' = "release"
    /\ UNCHANGED <<rdrow, jobs, rdwg, ptclosed, ptout, rdhalt>>
    /\ UNCHANGED <<cacheVars, pipeVars, wxVars, poolVars, parseVars, muVars>>

\* <-jobs, then the deferred wg.Done(); the function returns
SeqRelease ==
    /\ rdhalt = "no" /\ rdpc = "release" /\ jobs > 0
    /\ jobs' = JobsAfterRelease(jobs)
    /\ rdwg' = rdwg - 1
    /\ rdpc' = "read"
    /\ UNCHANGED <<rdrow, ptclosed, ptpc, ptrec, ptout, rdhalt>>
    /\ UNCHANGED <<cacheVars, pipeVars, wxVars, poolVars, parseVars, muVars>>

\* r.Read returns an error: the loop ends; wg.Wait(); close(printc)
SeqClose ==
    /\ rdhalt = "no" /\ rdpc = "read" /\ WaitReturns(rdwg)
    /\ ptclosed' = TRUE
    /\ rdpc' = "donec"
    /\ UNCHANGED <<rdrow, jobs, rdwg, ptpc, ptrec, ptout, rdhalt>>
    /\ UNCHANGED <<cacheVars, pipeVars, wxVars, poolVars, parseVars, muVars>>

\* printer: os.Create, which may be fatal, and the header
SeqPrinterStart ==
    /\ rdhalt = "no" /\ ptpc = "create"
    /\ \E ok \in BOOLEAN :
           /\ ptpc' = IF ok THEN "loop" ELSE ptpc
           /\ rdhalt' = IF ok THEN rdhalt ELSE "fatal"
    /\ UNCHANGED <<rdpc, rdrow, jobs, rdwg, ptclosed, ptrec, ptout>>
    /\ UNCHANGED <<cacheVars, pipeVars, wxVars, poolVars, parseVars, muVars>>

\* printer: w.Write(f)
SeqPrinterWrite ==
    /\ rdhalt = "no" /\ ptpc = "write"
    /\ ptout' = Append(ptout, ptrec)
    /\ ptrec' = NoRow
    /\ ptpc' = "loop"
    /\ UNCHANGED <<rdpc, rdrow, jobs, rdwg, ptclosed, rdhalt>>
    /\ UNCHANGED <<cacheVars, pipeVars, wxVars, poolVars, parseVars, muVars>>

\* printer: printc is closed, donec <- true meets readFile's <-donec; both
\* return
SeqPrinterEnd ==
    /\ rdhalt = "no" /\ ptpc = "loop" /\ ptclosed /\ rdpc = "donec"
    /\ ptpc' = "done"
    /\ rdpc' = "returned"
    /\ UNCHANGED <<rdrow, jobs, rdwg, ptclosed, ptrec, ptout, rdhalt>>
    /\ UNCHANGED <<cacheVars, pipeVars, wxVars, poolVars, parseVars, muVars>>

NextSeq ==
    \/ SeqRead
    \/ SeqAcquire
    \/ SeqHandle
    \/ SeqSend
    \/ SeqRelease
    \/ SeqClose
    \/ SeqPrinterStart
    \/ SeqPrinterWrite
    \/ SeqPrinterEnd

\* -------------------------------------------------------------- parse(r)
\* the columns of a raw row; a column the file does not have is Absent
Absent == <<"<absent>">>
KnownAirlines == {<<"A", "A">>}
KnownAirports == {<<"J", "F", "K">>, <<"L", "A", "X">>}

\* the value a switch case of the loop over the row leaves in its variable:
\* the zero value "" when the column is absent
Col(r, c) == IF r[c] = Absent THEN <<>> ELSE r[c]

DigitVal(ch) ==
    CASE ch = "0" -> 0 [] ch = "1" -> 1 [] ch = "2" -> 2 [] ch = "3" -> 3
      [] ch = "4" -> 4 [] ch = "5" -> 5 [] ch = "6" -> 6 [] ch = "7" -> 7
      [] ch = "8" -> 8 [] ch = "9" -> 9 [] OTHER -> -1

IsDigits(s) == s # <<>> /\ \A i \in 1..Len(s) : DigitVal(s[i]) >= 0

RECURSIVE Atoi(_)
Atoi(s) == IF s = <<>> THEN 0 ELSE 10 * Atoi(SubSeq(s, 1, Len(s) - 1)) + DigitVal(s[Len(s)])

\* strconv.ParseFloat on a decimal with at most one digit after the point:
\* the value in tenths, or an error
ParseFloat(s) ==
    LET neg == s # <<>> /\ s[1] = "-"
        body == IF neg THEN Tail(s) ELSE s
        dots == {i \in 1..Len(body) : body[i] = "."}
        dot == IF dots = {} THEN Len(body) + 1 ELSE CHOOSE i \in dots : \A j \in dots : i <= j
        whole == SubSeq(body, 1, dot - 1)
        frac == IF dots = {} THEN <<"0">> ELSE SubSeq(body, dot + 1, Len(body))
        ok == IsDigits(whole) /\ IsDigits(frac) /\ Len(frac) = 1
        mag == 10 * Atoi(whole) + Atoi(frac)
    IN  IF ok THEN [ok |-> TRUE, tenths |-> IF neg THEN 0 - mag ELSE mag]
        ELSE [ok |-> FALSE, tenths |-> 0]

\* int(delay) after the floor at zero: the whole minutes
DelayOf(tenths) == IF tenths < 0 THEN 0 ELSE tenths \div 10

\* the "2400" quirk, then time.Parse("1504...", clock + date): HHMM
Clock(s) == IF s = <<"2", "4", "0", "0">> THEN <<"2", "3", "5", "9">> ELSE s

ClockOk(s) ==
    /\ Len(s) = 4
    /\ IsDigits(s)
    /\ Atoi(SubSeq(s, 1, 2)) < 24
    /\ Atoi(SubSeq(s, 3, 4)) < 60

\* the rows parse is applied to: a column is absent, or holds one of a few
\* values, good and bad
Rows ==
    [CARRIER : {Absent, <<"A", "A">>, <<"Z", "Z">>},
     ORIGIN : {Absent, <<"J", "F", "K">>, <<"X", "X", "X">>},
     DEST : {Absent, <<"L", "A", "X">>, <<"X", "X", "X">>},
     CANCELLED : {<<"0", ".", "0", "0">>, <<"1", ".", "0", "0">>},
     CRS_DEP_TIME : {<<"0", "8", "0", "0">>, <<"2", "4", "0", "0">>, <<"2", "5", "0", "0">>},
     DEP_TIME : {<<"0", "8", "1", "5">>, Absent},
     DEP_DELAY : {<<"1", "5">>, <<"-", "5">>, <<"7", ".", "9">>, <<"-", "0", ".", "5">>,
                  <<"x">>, Absent},
     WEATHER_DELAY : {Absent, <<>>, <<"0", ".", "0", "0">>}]

DefaultRow ==
    [CARRIER |-> Absent, ORIGIN |-> Absent, DEST |-> Absent, CANCELLED |-> Absent,
     CRS_DEP_TIME |-> Absent, DEP_TIME |-> Absent, DEP_DELAY |-> Absent,
     WEATHER_DELAY |-> Absent]

NotCalled == [kind |-> "none"]
\* the error parse returns, and the column it came from
ParseErr(c) == [kind |-> "err", at |-> c]
ParsePanic == [kind |-> "panic"]
\* the zero value of flight.Flight's Carrier, Origin and Destination
ZeroEntity == <<>>
FlightOf(carrier, origin, dest, cancelled, delay) ==
    [kind |-> "flight", carrier |-> carrier, origin |-> origin, dest |-> dest,
     cancelled |-> cancelled, delay |-> delay]

\* airlines.LookupIATA / airports.LookupIATA run only for a column the row has
LookupFails(v, known) == v # Absent /\ v \notin known

\* f.Delay of a row that is not cancelled
DelayField(weatherDelay, fl) == IF weatherDelay # <<>> THEN DelayOf(fl.tenths) ELSE 0

\* the locals and the fields of f before the loop: zero values, no error
ZeroState ==
    [carrier |-> ZeroEntity, origin |-> ZeroEntity, dest |-> ZeroEntity,
     located |-> FALSE, cancelled |-> FALSE, crsDepTime |-> <<>>, depTime |-> <<>>,
     depDelay |-> <<>>, weatherDelay |-> <<>>, err |-> ""]

\* a loop body whose DEST case assigns f.Origin as well
CaseDestIntoOrigin(st, c, v) ==
    CASE c = "CARRIER" ->
             IF LookupFails(v, KnownAirlines) THEN [st EXCEPT !.err = c]
             ELSE [st EXCEPT !.carrier = v]
      [] c = "ORIGIN" ->
             IF LookupFails(v, KnownAirports) THEN [st EXCEPT !.err = c]
             ELSE [st EXCEPT !.origin = v, !.located = TRUE]
      [] c = "DEST" ->
             IF LookupFails(v, KnownAirports) THEN [st EXCEPT !.err = c]
             ELSE [st EXCEPT !.dest = v, !.origin = v]
      [] c = "CANCELLED" -> [st EXCEPT !.cancelled = (v = <<"1", ".", "0", "0">>)]
      [] c = "CRS_DEP_TIME" -> [st EXCEPT !.crsDepTime = v]
      [] c = "DEP_TIME" -> [st EXCEPT !.depTime = v]
      [] c = "DEP_DELAY" -> [st EXCEPT !.depDelay = v]
      [] c = "WEATHER_DELAY" -> [st EXCEPT !.weatherDelay = v]
      [] OTHER -> st

\* one turn of the loop, the switch on the column name k with its value v
SwitchCase(st, c, v) ==
    CASE c = "CARRIER" ->
             IF LookupFails(v, KnownAirlines) THEN [st EXCEPT !.err = c]
             ELSE [st EXCEPT !.carrier = v]
      [] c = "ORIGIN" ->
             IF LookupFails(v, KnownAirports) THEN [st EXCEPT !.err = c]
             ELSE [st EXCEPT !.origin = v, !.located = TRUE]
      [] c = "DEST" ->
             IF LookupFails(v, KnownAirports) THEN [st EXCEPT !.err = c]
             ELSE [st EXCEPT !.dest = v]
      [] c = "CANCELLED" -> [st EXCEPT !.cancelled = (v = <<"1", ".", "0", "0">>)]
      [] c = "CRS_DEP_TIME" -> [st EXCEPT !.crsDepTime = v]
      [] c = "DEP_TIME" -> [st EXCEPT !.depTime = v]
      [] c = "DEP_DELAY" -> [st EXCEPT !.depDelay = v]
      [] c = "WEATHER_DELAY" -> [st EXCEPT !.weatherDelay = v]
      [] OTHER -> st

\* for k, v := range r, in the order the map hands its columns out; a failed
\* lookup returns at once
RECURSIVE RangeOver(_, _, _)
RangeOver(st, r, order) ==
    IF order = <<>> \/ st.err # "" THEN st
    ELSE IF r[Head(order)] = Absent THEN RangeOver(st, r, Tail(order))
    ELSE RangeOver(SwitchCase(st, Head(order), r[Head(order)]), r, Tail(order))

\* the code after the loop
AfterLoop(st) ==
    LET fl == ParseFloat(st.depDelay)
    IN  IF st.err # "" THEN ParseErr(st.err)
        ELSE IF st.cancelled THEN FlightOf(st.carrier, st.origin, st.dest, TRUE, 0)
        ELSE IF ~ClockOk(Clock(st.crsDepTime)) THEN ParseErr("CRS_DEP_TIME")
        \* location is still nil: Time.In(nil) panics
        ELSE IF ~st.located THEN ParsePanic
        ELSE IF ~ClockOk(Clock(st.depTime)) THEN ParseErr("DEP_TIME")
        ELSE IF st.weatherDelay # <<>> /\ ~fl.ok THEN ParseErr("DEP_DELAY")
        ELSE FlightOf(st.carrier, st.origin, st.dest, FALSE,
                      DelayField(st.weatherDelay, fl))

parse(r, order) == AfterLoop(RangeOver(ZeroState, r, order))

\* the orders a map is ranged over: the columns whose case does more than
\* store a string, in every order, before or after the others
ColumnOrders ==
    LET lookups == {"CARRIER", "ORIGIN", "DEST", "CANCELLED"}
        strings == <<"CRS_DEP_TIME", "DEP_TIME", "DEP_DELAY", "WEATHER_DELAY">>
    IN  {o \o strings : o \in Orders(lookups)} \cup {strings \o o : o \in Orders(lookups)}

InitParse == inRow = DefaultRow /\ parsed = NotCalled

ParseRow ==
    /\ parsed = NotCalled
    /\ \E order \in ColumnOrders : parsed' = parse(inRow, order)
    /\ UNCHANGED inRow
    /\ UNCHANGED <<cacheVars, pipeVars, wxVars, poolVars, muVars, seqVars>>

NextParse == ParseRow

InitRows ==
    /\ InitCache /\ InitPipe /\ InitWx /\ InitPool /\ InitMu /\ InitSeq
    /\ inRow \in Rows
    /\ parsed = NotCalled

SpecParse == InitRows /\ [][NextParse]_vars

Init == InitCache /\ InitPipe /\ InitWx /\ InitPool /\ InitParse /\ InitMu /\ InitSeq

Next ==
    \/ \E p \in Procs, k \in Keys, v \in Vals : Set(p, k, v)
    \/ \E p \in Procs : AppendOpen(p)
    \/ \E p \in Procs : AppendHeader(p)
    \/ \E p \in Procs : AppendFlush(p)
    \/ \E p \in Procs : AppendTrailer(p)
    \/ \E p \in Procs, k \in Keys : Get(p, k)
    \/ \E p \in Procs, path \in Paths : Export(p, path)
    \/ \E p \in Procs, path \in Paths : Load(p, path)

Spec == Init /\ [][Next]_vars

SpecPipe == Init /\ [][NextPipe]_vars

SpecWeather == Init /\ [][NextWeather]_vars

SpecPool == Init /\ [][NextPool]_vars

SpecMu == Init /\ [][NextMu]_vars

SpecSeq == Init /\ [][NextSeq]_vars

SpecPipeFair == Init /\ [][NextPipeFetchOk]_vars /\ FairPipe

\* ------------------------------------------------- Load of a file on disk
\* the lines a cache file left by an earlier run may hold: well-formed ones,
\* two of them with the same key, one without delimiter, one with two
\* delimiters, an empty one
LineKinds == {<<"a", "_", "x">>, <<"a", "_", "y">>, <<"b", "_", "x">>,
              <<"a", "x">>, <<"a", "_", "x", "_">>, <<>>}

SeqsUpTo(S, n) == UNION {[1..m -> S] : m \in 0..n}

RECURSIVE JoinLines(_)
JoinLines(ls) == IF ls = <<>> THEN <<>> ELSE Head(ls) \o <<"\n">> \o JoinLines(Tail(ls))

\* weather.cache holds one gzip member of newline-terminated lines
InitLoad ==
    /\ \E ls \in SeqsUpTo(LineKinds, MaxLines) :
           fs = [p \in Paths |-> IF p = DefaultName
                                 THEN <<Hdr, Dat(JoinLines(ls)), Trl>> ELSE <<>>]
    /\ InitCacheRest
    /\ InitPipe
    /\ InitWx
    /\ InitPool
    /\ InitParse
    /\ InitMu
    /\ InitSeq

NextLoad == \E p \in Procs, path \in Paths : Load(p, path)

SpecLoad == InitLoad /\ [][NextLoad]_vars

\* ------------------------------------------------------------ cache claims
Hit(v) == [found |-> TRUE, v |-> v]

\* C1: Get(k) returns the value of the first Set(k, .) that took effect, and a
\* value Get has returned is the value every later Get of that key returns: no
\* later Set(k, v2) overwrites it.
C1_FirstWriteWins ==
    /\ \A k \in DOMAIN firstSet : CacheGet(data, k) = Hit(firstSet[k])
    /\ \A p \in Procs :
           (got[p].called /\ got[p].r.found) => CacheGet(data, got[p].k) = got[p].r

\* a Set with another value met the key present, and a Get of that key hit
C1_Witness ==
    \E p, q \in Procs :
        /\ lastSet[p].called /\ lastSet[p].loaded
        /\ CacheGet(data, lastSet[p].k) # Hit(lastSet[p].v)
        /\ got[q].called /\ got[q].k = lastSet[p].k /\ got[q].r.found

\* C2: of concurrent Sets of one absent key with distinct values exactly one
\* value is stored and appendFile is invoked exactly once, with that value;
\* the other calls change nothing.
C2_ConcurrentDedup ==
    /\ \A k \in Keys : Len(appended[k]) <= 1
    /\ \A k \in Keys : Len(appended[k]) = 1 => CacheGet(data, k) = Hit(appended[k][1])
    /\ (\A p \in Procs : cpc[p] # "append") =>
           \A k \in DOMAIN data : Len(appended[k]) = 1

\* the loser's Set returned while the winner is still inside appendFile
C2_Witness ==
    \E p, q \in Procs :
        /\ p # q
        /\ lastSet[p].called /\ lastSet[q].called
        /\ lastSet[p].k = lastSet[q].k /\ lastSet[p].v # lastSet[q].v
        /\ ~lastSet[p].loaded /\ lastSet[q].loaded
        /\ cpc[p] \in {"header", "flush", "trailer"} /\ cpc[q] = "idle"

\* C3: Set(k, v) on an absent key then Get(k) gives v, and after Export(path)
\* and Load(path) the fresh instance's Get(k) gives v, for any pair.
C3_RoundTrip ==
    /\ \A p \in Procs :
           (lastSet[p].called /\ ~lastSet[p].loaded) =>
               CacheGet(data, lastSet[p].k) = Hit(lastSet[p].v)
    /\ (fresh.ok /\ exported[fresh.path].ok) =>
           \A k \in DOMAIN exported[fresh.path].data :
               CacheGet(fresh.data, k) = Hit(exported[fresh.path].data[k])

\* --------------------------------------------------------- pipeline claims
RowIds == 1..Len(rows)
Streaming == {"read", "push", "wait1", "add"}

\* C4: when processFile returns, every accepted row is terminal, the printer
\* has written each row that parsed and was enriched exactly once and no
\* other row; at no time is a row written twice or a failed row written.
C4_PipelineAccounting ==
    /\ \A i \in RowIds : rows[i].writes <= (IF rows[i].kind = "ok" THEN 1 ELSE 0)
    /\ mpc = "returned" =>
           \A i \in RowIds :
               /\ rows[i].st \in Terminal
               /\ rows[i].writes = (IF rows[i].kind = "ok" THEN 1 ELSE 0)
               /\ (rows[i].st = "written") = (rows[i].kind = "ok")

\* processFile has returned for a file with a written row and a skipped row
C4_Witness ==
    /\ mpc = "returned"
    /\ \E i, j \in RowIds :
           /\ rows[i].kind = "ok" /\ rows[i].writes = 1
           /\ rows[j].kind = "parseErr" /\ rows[j].st = "skipped"

\* C5: the counter is never negative, each accepted row is decremented once,
\* when it becomes terminal (skipped by a worker or written by the printer),
\* and until the final Add the counter is the number of accepted rows that
\* are not yet terminal.
C5_CounterDiscipline ==
    /\ wg >= 0
    /\ halt # "panic"
    /\ \A i \in RowIds : rows[i].dones = (IF rows[i].st \in Terminal THEN 1 ELSE 0)
    /\ (mpc \in Streaming) =>
           wg = Cardinality({i \in RowIds : rows[i].st \notin Terminal})

\* while rows are streamed: one written, one skipped after a weather error,
\* and one accepted and not yet pushed
C5_Witness ==
    /\ mpc = "push" /\ wg = 1
    /\ \E i, j \in RowIds :
           /\ rows[i].st = "written"
           /\ rows[j].st = "skipped" /\ rows[j].kind = "wxErr"

\* C6: printCh is closed only after rowCh was closed and the counter was back
\* at zero: no worker holds a row or is sending, and no send panics.
C6_CloseAfterDrain ==
    /\ halt # "panic"
    /\ printClosed =>
           /\ rowClosed
           /\ rowCh = <<>>
           /\ \A w \in Workers : wpc[w] \in {"recv", "exit"}
           /\ \A i \in RowIds : rows[i].st \in Terminal

\* printCh is closed after a row was written
C6_Witness ==
    /\ printClosed
    /\ \E i \in RowIds : rows[i].st = "written"

\* C7: when processFile returns, the printer has flushed its writer and
\* closed the output file.
C7_FlushedOnReturn ==
    mpc = "returned" => (outbuf = <<>> /\ outClosed)

\* ---------------------------------------------------------- weather claims
\* C8: over any interleaving of workers calling weather.Get, at most one
\* external fetch is made for each (location, rounded hour) key.
C8_AtMostOneFetch ==
    \A k \in AllKeys : fetches[k] <= 1

\* C9: once a call that missed has returned, the cache holds the observation
\* of each hourly point of its fetch under that hour's key, and a later
\* weather.Get for one of those hours is a hit: it never goes on to fetch.
C9_Backfill ==
    /\ \A b \in backfilled :
           CacheGet(cmap, HashKey(b.a, b.tm)) = Hit([blk |-> "hourly", a |-> b.a, time |-> b.tm])
    /\ \A w \in Workers : xpc[w] # "idle" => ~xreq[w].late

\* a call hit on an hour that a fetch for another hour had backfilled
C9_Witness ==
    \E w \in Workers :
        /\ xres[w].how = "hit"
        /\ [a |-> xres[w].a, tm |-> xres[w].tm] \in backfilled
        /\ fetches[HashKey(xres[w].a, xres[w].tm)] = 0

\* C10: when the external fetch fails the process ends there: the failing
\* call never returns, no fetch is made again, and no other call returns or
\* stores anything afterwards.
C10_FetchErrorIsFatal ==
    failSnap.failed =>
        /\ xhalt = "fatal"
        /\ xpc[failSnap.w] = "fetch"
        /\ ndone = failSnap.ndone
        /\ fetches = failSnap.fetches
        /\ cmap = failSnap.cmap

\* a fetch failed after a call had returned, while another worker waits
C10_Witness ==
    /\ failSnap.failed
    /\ ndone >= 1
    /\ \E w \in Workers : w # failSnap.w /\ xpc[w] = "gate"

\* ------------------------------------------------- error handling, pipeline
\* C11: a row whose weather resolution failed is never skipped by the worker
\* (logged, counter decremented, next row): only a row whose parse failed is.
C11_ResolverFailureNotSkipped ==
    \A i \in RowIds : rows[i].st = "skipped" => rows[i].kind = "parseErr"

\* C12: a row whose parse fails is skipped: its counter is decremented once,
\* nothing of it reaches the printer, the worker goes back to receive the next
\* row, and the process never ends fatally in a parse (only at the printer's
\* os.Create or in a worker's weather resolution).
C12_ParseFailureSkips ==
    /\ [](\A i \in RowIds : rows[i].kind = "parseErr" =>
             /\ rows[i].st \in {"accepted", "queued", "parsing", "skipped"}
             /\ rows[i].writes = 0
             /\ rows[i].dones = (IF rows[i].st = "skipped" THEN 1 ELSE 0)
             /\ srow # i)
    /\ [][/\ \A w \in Workers :
               (wpc[w] = "parse" /\ rows[wrow[w]].kind = "parseErr" /\ wpc'[w] # "parse") =>
                   /\ wpc'[w] = "recv"
                   /\ rows'[wrow[w]].st = "skipped"
                   /\ wg' = wg - 1
                   /\ halt' = "no"
          /\ (halt = "no" /\ halt' = "fatal") =>
                 (spc = "create" \/ \E u \in Workers : wpc[u] = "weather")]_vars

\* after a parse failure was skipped, a worker holds a later row and the
\* process runs
C12_Witness ==
    /\ halt = "no"
    /\ \E i \in RowIds, w \in Workers :
           /\ rows[i].kind = "parseErr" /\ rows[i].st = "skipped"
           /\ wrow[w] > i /\ wpc[w] = "weather"

\* ------------------------------------------------------ resolver, the gate
\* C13: the external fetches in progress never exceed the capacity of the
\* conc channel, whatever the number of workers, and the slots in use are
\* exactly those of the calls that acquired one and have not returned yet.
C13_GateBoundsFetches ==
    /\ Cardinality({w \in Workers : xpc[w] = "fetch"}) <= GateCap
    /\ conc <= GateCap
    /\ conc = Cardinality({w \in Workers : xpc[w] \in {"fetch", "cache"}})

\* the gate is full and a worker waits at it, after the fetching worker's
\* earlier call had fetched, returned and released its slot
C13_Witness ==
    /\ conc = GateCap
    /\ \E w, u \in Workers :
           /\ xpc[w] = "fetch" /\ xres[w].how = "miss"
           /\ xpc[u] = "gate"

\* ------------------------------------------------- resolver, what it returns
\* C14: a call that missed returns the observation that the backfill stored
\* under the requested key, the one a later hit on that key returns.
C14_MissReturnsStoredPoint ==
    \A w \in Workers :
        xres[w].how = "miss" =>
            CacheGet(cmap, HashKey(xres[w].a, xres[w].tm)) = Hit(xres[w].v)

\* C15: a call that finds its key in the cache returns the cached payload
\* and goes no further: it takes no slot of the gate, makes no fetch and
\* leaves the cache and its file as they were.
C15_HitTouchesNothing ==
    /\ [](\A w \in Workers :
             /\ xpc[w] # "idle" => ~xreq[w].present
             /\ xres[w].how = "hit" =>
                    CacheGet(cmap, HashKey(xres[w].a, xres[w].tm)) = Hit(xres[w].v))
    /\ [][(ncalls' = ncalls + 1 /\ ndone' = ndone + 1) =>
              /\ conc' = conc
              /\ fetches' = fetches
              /\ cmap' = cmap
              /\ cmfile' = cmfile
              /\ xresp' = xresp]_vars

\* a call hit while another worker held the gate for its own fetch
C15_Witness ==
    \E w, u \in Workers :
        /\ xres[w].how = "hit" /\ xreq[w].present /\ xpc[w] = "idle"
        /\ xpc[u] = "fetch" /\ conc = GateCap

\* ---------------------------------------------------------- Load claims
\* the lines of weather.cache, and the position of the delimiters in a line
DiskLines == ScanLines(Gunzip(fs[DefaultName], 1))
Delims(l) == {i \in 1..Len(l) : l[i] = "_"}
WellFormed(l) == Cardinality(Delims(l)) = 1
KeyOf(l) == SubSeq(l, 1, (CHOOSE i \in Delims(l) : TRUE) - 1)
ValOf(l) == SubSeq(l, (CHOOSE i \in Delims(l) : TRUE) + 1, Len(l))
GoodLines == {j \in 1..Len(DiskLines) : WellFormed(DiskLines[j])}

\* C16: Load succeeds on a file that mixes well-formed and malformed lines:
\* the keys of the map are exactly the keys of the lines with one delimiter,
\* each with the value of such a line, and no other line adds anything.
C16_LoadTolerance ==
    /\ ~crashed
    /\ nops > 0 => fresh.ok
    /\ fresh.ok =>
           /\ DOMAIN fresh.data = {KeyOf(DiskLines[j]) : j \in GoodLines}
           /\ \A k \in DOMAIN fresh.data :
                  \E j \in GoodLines :
                      KeyOf(DiskLines[j]) = k /\ ValOf(DiskLines[j]) = fresh.data[k]

\* Load returned for a file with a well-formed line and lines of one and of
\* three fields
C16_Witness ==
    /\ fresh.ok
    /\ DOMAIN fresh.data # {}
    /\ \E i, j \in 1..Len(DiskLines) :
           /\ Cardinality(Delims(DiskLines[i])) = 0 /\ DiskLines[i] # <<>>
           /\ Cardinality(Delims(DiskLines[j])) = 2

\* C17: when the file holds the same key on several lines, Load keeps the
\* value of the first of them and does not fail.
C17_FirstOccurrenceKept ==
    /\ ~crashed
    /\ fresh.ok =>
           \A j \in GoodLines :
               (\A i \in GoodLines : i < j => KeyOf(DiskLines[i]) # KeyOf(DiskLines[j])) =>
                   CacheGet(fresh.data, KeyOf(DiskLines[j])) = Hit(ValOf(DiskLines[j]))

\* Load returned for a file with one key on two lines, with two values
C17_Witness ==
    /\ fresh.ok
    /\ \E i, j \in GoodLines :
           /\ i < j
           /\ KeyOf(DiskLines[i]) = KeyOf(DiskLines[j])
           /\ ValOf(DiskLines[i]) # ValOf(DiskLines[j])

\* C18: Load where no cache file exists creates the file and returns an
\* empty cache without an error: no Load ends the process or fails.
C18_LoadCreatesEmptyCache ==
    ~crashed

\* ------------------------------------------------- Set, a failing append
\* C19: when the append of Set(k, v) on an absent key fails, the map still
\* holds k -> v, which is what Get(k) returns from then on, and the failure
\* changes no entry of the map.
C19_FailedAppendKeepsEntry ==
    /\ [](\A p \in Procs :
             (lastSet[p].called /\ ~lastSet[p].loaded /\ ~lastSet[p].appendOk) =>
                 CacheGet(data, lastSet[p].k) = Hit(lastSet[p].v))
    /\ [][\A p \in Procs :
             (lastSet[p].appendOk /\ ~lastSet'[p].appendOk) => data' = data]_vars

\* an append failed, another key was set since, and a Get of the key of the
\* failed append hit
C19_Witness ==
    \E p, q \in Procs :
        /\ lastSet[p].called /\ ~lastSet[p].appendOk /\ cpc[p] = "idle"
        /\ got[q].called /\ got[q].k = lastSet[p].k /\ got[q].r = Hit(lastSet[p].v)
        /\ DOMAIN data # {lastSet[p].k}

\* C20: Set returns a non-nil error whenever its append did not succeed.
C20_AppendErrorReported ==
    \A p \in Procs :
        (lastSet[p].called /\ ~lastSet[p].appendOk) => lastSet[p].ret = "err"

\* ------------------------------------------------------ Export and Get
\* C21: with no Set in progress, Export(path) leaves in the file one line
\* key_value for every entry of the map and no other line, and does not
\* change the map.
C21_ExportWritesTheMap ==
    [][(exported' # exported /\ \A p \in Procs : cpc[p] = "idle") =>
          LET lines == ScanLines(Gunzip(fs'[name'], 1))
          IN  /\ data' = data
              /\ Len(lines) = Cardinality(DOMAIN data)
              /\ \A k \in DOMAIN data :
                     \E j \in 1..Len(lines) : lines[j] = k \o <<"_">> \o data[k]]_vars

\* an Export of a map of two entries, no Set in progress
C21_Witness ==
    /\ exported[name].ok
    /\ exported[name].data = data
    /\ Cardinality(DOMAIN data) = 2
    /\ Len(fs[name]) = 3
    /\ \A p \in Procs : cpc[p] = "idle"

\* C22: Get(k) only reads the map: for a present and for an absent key it
\* returns what the map holds and changes neither the map nor the file, nor
\* the name of the file.
C22_GetOnlyReadsTheMap ==
    [][got' # got =>
          /\ data' = data
          /\ fs' = fs
          /\ name' = name
          /\ \A p \in Procs :
                 got'[p] # got[p] => got'[p].r = CacheGet(data, got'[p].k)]_vars

\* a Get of an absent key and a Get of a present key have returned
C22_Witness ==
    \E p, q \in Procs :
        /\ got[p].called /\ ~got[p].r.found /\ got[p].k \notin DOMAIN data
        /\ got[q].called /\ got[q].r.found

\* ------------------------------------------------------------ the printer
\* what the printer has written so far, flushed or not
Written == outfile \o outbuf

\* C23: the printer writes the header once, before any row, in whatever
\* order the workers deliver their records.
C23_HeaderOnceAndFirst ==
    /\ spc \in {"create", "header"} => Written = <<>>
    /\ spc \notin {"create", "header"} =>
           /\ Len(Written) >= 1
           /\ Written[1] = HeaderRec
           /\ \A i \in 2..Len(Written) : ~Written[i].hdr

\* two rows were written after the header, the later row of the file first
C23_Witness ==
    /\ Len(Written) >= 3
    /\ \E i, j \in 2..Len(Written) : i < j /\ Written[i].row > Written[j].row

\* --------------------------------------------- parser and worker pools
\* C24: a Flight is used by one goroutine at a time: while a worker holds a
\* record, from its receive on jobs to its send on printc, the record is the
\* one it received and no parser writes it.
C24_RecordOwnedByOne ==
    \A w \in Workers :
        kpc[w] \in {"weather", "print"} =>
            /\ pf[kptr[w]].row = kgot[w]
            /\ ppc[kptr[w]] # "parse"
            /\ \A u \in Workers : (u # w /\ kpc[u] \in {"weather", "print"}) => kptr[u] # kptr[w]

\* C25: a row that is not cancelled and that parse accepts gets Delay = its
\* DEP_DELAY value truncated to whole minutes and floored at zero, whatever
\* its other columns hold
C25_DelayFromDepDelay ==
    LET fl == ParseFloat(Col(inRow, "DEP_DELAY"))
    IN  (parsed.kind = "flight" /\ ~parsed.cancelled /\ fl.ok) =>
            IF fl.tenths < 0 THEN parsed.delay = 0
            ELSE 10 * parsed.delay <= fl.tenths /\ fl.tenths < 10 * parsed.delay + 10

\* C26: a row with an unknown reference code or without a CARRIER, ORIGIN or
\* DEST column gives a parse error: parse never panics and never returns a
\* record whose airline or airport is the zero value
BadRow(r) ==
    \/ LookupFails(r.CARRIER, KnownAirlines) \/ r.CARRIER = Absent
    \/ LookupFails(r.ORIGIN, KnownAirports) \/ r.ORIGIN = Absent
    \/ LookupFails(r.DEST, KnownAirports) \/ r.DEST = Absent

C26_BadRowIsAnError ==
    parsed # NotCalled =>
        /\ parsed.kind # "panic"
        /\ BadRow(inRow) => parsed.kind = "err"
        /\ parsed.kind = "flight" =>
               ZeroEntity \notin {parsed.carrier, parsed.origin, parsed.dest}

\* C27: on a finite input file none of whose fetches fails, and with every
\* goroutine scheduled, processFile eventually returns (nil, or the error of
\* a file it could not open): reader, workers and printer never block one
\* another for ever on rowCh, printCh or the WaitGroup.  The one run that
\* does not return is the process ended by the printer's log.Fatalf when the
\* output file cannot be created.
Returned == mpc \in {"returned", "failed"}
CreateFailed == halt = "fatal" /\ spc = "create"

HeldBy(p) == mu.w = p \/ p \in mu.r

C28_LazyLoadCompletes ==
    \A p \in Procs : gpc[p] \in {"setLoad", "getLoad"} => ~HeldBy(p)

\* C29: the step of Set that finds its key in the map changes neither the
\* map nor any file
C29_SetOnPresentKeyIsNoOp ==
    [][\A p \in Procs :
           (gpc[p] = "setBody" /\ gpc'[p] = "idle" /\ garg[p].k \in DOMAIN cache) =>
               (cache' = cache /\ txt' = txt)]_vars

\* C30: the workers close the result channel once for an input file: no
\* worker closes printc after another worker has closed it
C30_ResultChannelClosedOnce == pcloses <= 1

\* C31: once a Set that added its entry has returned, and no Export has
\* moved the cache to another file, a Load of the backing file gives a cache
\* whose Get of the key returns the value that was set
NoExportYet == \A path \in Paths : ~exported[path].ok

C31_SetIsRecoverable ==
    \A p \in Procs :
        (/\ lastSet[p].called /\ ~lastSet[p].loaded
         /\ lastSet[p].ret # "none" /\ cpc[p] = "idle"
         /\ NoExportYet) =>
            LET f == fs[LoadPath(DefaultName)]
            IN  /\ ~NewReaderFails(f)
                /\ CacheGet(LoadLines(EmptyMap, ScanLines(Gunzip(f, 1)), 1), lastSet[p].k)
                       = [found |-> TRUE, v |-> lastSet[p].v]

\* C32: for one row, parse gives the same record in whatever order the
\* columns of the map are ranged over, or an error in every order (or the
\* same panic)
C32_OrderDoesNotMatter ==
    parsed # NotCalled =>
        \A order \in ColumnOrders :
            LET other == parse(inRow, order)
            IN  /\ other.kind = parsed.kind
                /\ parsed.kind = "flight" => other = parsed

\* a row with two unknown codes, whose error came from the one seen first
C32_Witness ==
    /\ parsed.kind = "err" /\ parsed.at = "DEST"
    /\ LookupFails(inRow.CARRIER, KnownAirlines)
    /\ LookupFails(inRow.ORIGIN, KnownAirports)

\* C33: an appendFile that opens its file after an Export opens the path of
\* that Export (the latest one), and each of its writes changes that file
\* and no other: a Set after Export(path) appends to path, not to the file
\* the cache used before
C33_ExportRedirectsAppends ==
    [][\A p \in Procs :
           /\ (cpc[p] = "append" /\ cpc'[p] = "header" /\ exported[name].ok) =>
                  carg'[p].fd = name
           /\ (cpc[p] \in {"header", "flush", "trailer"} /\ cpc'[p] # cpc[p]
               /\ lastSet'[p].appendOk) =>
                  /\ fs'[carg[p].fd] # fs[carg[p].fd]
                  /\ \A path \in Paths \ {carg[p].fd} : fs'[path] = fs[path]]_vars

\* a Set that ran after Export("snap.cache") and put its record there
C33_Witness ==
    /\ name = "snap.cache" /\ exported["snap.cache"].ok
    /\ fs[DefaultName] = <<>>
    /\ \E p \in Procs :
           /\ cpc[p] = "idle" /\ lastSet[p].called /\ ~lastSet[p].loaded
           /\ lastSet[p].ret = "nil" /\ lastSet[p].appendOk
           /\ carg[p].fd = "snap.cache"
           /\ lastSet[p].k \notin DOMAIN exported["snap.cache"].data
           /\ Len(fs["snap.cache"]) = 6

\* C34: once the Set calls have returned, the backing file is a sequence of
\* whole gzip members (header, data, trailer), one per appended record, and
\* decodes to that many key_value lines: no two appends interleaved
ChunkAt(i) == IF i % 3 = 1 THEN "hdr" ELSE IF i % 3 = 2 THEN "dat" ELSE "trl"

C34_AppendsDoNotInterleave ==
    ((\A p \in Procs : cpc[p] = "idle") /\ NoExportYet) =>
        LET f == fs[DefaultName]
        IN  /\ Len(f) % 3 = 0
            /\ \A i \in 1..Len(f) : f[i].t = ChunkAt(i)
            /\ Len(ScanLines(Gunzip(f, 1))) = Len(f) \div 3

\* C35: the rows read and not yet terminal are the one the reader holds, those
\* in rowCh (at most its capacity), one per worker at most and the one the
\* printer holds: never more than capacity + workers + 2, however long the
\* file; with rowCh full the reader waits at its send
RowsIn(sts) == Cardinality({i \in RowIds : rows[i].st \in sts})

C35_BoundedInFlight ==
    /\ RowsIn({"accepted"}) <= 1
    /\ RowsIn({"queued"}) = Len(rowCh) /\ Len(rowCh) <= RowChCap
    /\ RowsIn({"parsing", "weather", "send"}) <= NumWorkers
    /\ RowsIn({"atsink"}) <= 1
    /\ \A i \in RowIds :
           rows[i].st \in {"accepted", "queued", "parsing", "weather", "send", "atsink"}
                           \cup Terminal
    /\ Cardinality({i \in RowIds : rows[i].st \notin Terminal})
           <= RowChCap + NumWorkers + 2
    /\ (mpc = "push" /\ Len(rowCh) = RowChCap) => ~ENABLED CoordPush

\* the reader holds a row it cannot send: rowCh is full
C35_Witness ==
    /\ mpc = "push" /\ Len(rowCh) = RowChCap
    /\ RowsIn({"accepted"}) = 1
    /\ halt = "no"

\* C36: when processFile has returned an error before reading any row, the
\* goroutines it started are released: rowCh and printCh are closed, so that
\* the workers' and the printer's receive loops end (processFile alone holds
\* the two channels, and it has returned)
C36_FailedFileReleasesGoroutines == mpc = "failed" => (rowClosed /\ printClosed)

\* C37: once processFile has closed rowCh, every worker eventually leaves its
\* receive loop and exits, unless the process ends first: no worker outlives
\* its file
AllWorkersExited == \A w \in Workers : wpc[w] = "exit"

C37_WorkersExitAfterClose == [](rowClosed => <>(AllWorkersExited \/ halt # "no"))

\* the process goes on after the file and every worker of the file is gone
C37_Witness ==
    /\ mpc = "returned" /\ halt = "no"
    /\ Len(rows) = MaxRows
    /\ AllWorkersExited

\* C38: in the revision with the jobs semaphore the reader handles a row
\* before it reads the next: at most one row is counted in the WaitGroup and
\* one token is in jobs, the send on jobs never has to wait, and the printer
\* gets the records in the order of the input
C38_OneRowAtATime ==
    /\ rdwg <= 1 /\ jobs <= 1
    /\ rdpc = "acquire" => SemHasRoom(jobs)
    /\ rdpc \in {"handle", "send", "release"} => (rdwg = 1 /\ jobs = 1)
    /\ \A i, j \in 1..Len(ptout) : i < j => ptout[i] < ptout[j]
    /\ ptrec # NoRow => (ptrec <= rdrow /\ \A i \in 1..Len(ptout) : ptout[i] < ptrec)

\* every row of the file was written, one after the other
C38_Witness ==
    /\ rdpc = "returned"
    /\ Len(ptout) = MaxRows
    /\ jobs = 0 /\ rdwg = 0

====
